---- MODULE Spec2Model ----
(***************************************************************************)
(* Verification model of the rustylens presentation layer.                 *)
(*                                                                         *)
(* Part 1: the pods page (src/routes/pods/+page.svelte) together with the  *)
(* watch engine it talks to.  The watch engine (start_pod_watch, the event *)
(* channel) is backend code; it is modelled from the written design        *)
(* (spec.md 4.4, 5, 7).                                                    *)
(* Part 2: formatAge, a pure function of the pods page.                    *)
(* Part 3: the cluster import modal (ClusterImportModal.svelte).           *)
(* Part 4: the settings store and the theme effect of the layout.          *)
(* Part 5: the DataTable component, and the bulk delete of the pods page.  *)
(* Part 6: getColorForString (overview page and IconSidebar).              *)
(* Part 7: ClusterStore (refresh, setActive, fetchNamespaces) and the      *)
(* debounced refresh of the Sidebar.                                       *)
(* Part 8: the confirmed delete actions of the overview, pods and          *)
(* deployments pages, and the deployment detail drawer.                    *)
(***************************************************************************)
EXTENDS Integers, Sequences, FiniteSets, TLC

(* ------------------------------ bounds --------------------------------- *)
MaxRev == 2
MaxEvents == 1
MaxCalls == 2
MaxSubs == 2
MaxChan == 2
MaxStarts == 3
MaxStreamEvents == 6
MaxSettingsSteps == 3
MaxTableSteps == 3
MaxBulkEvents == 1
MaxBulkSteps == 3

Contexts == {"c1", "c2"}
Namespaces == {"a", "b"}
Scopes == {"all"} \cup Namespaces

Keys == {<<"x", "a">>, <<"y", "b">>, <<"x", "b">>}
Present == {<<"x", "a">>, <<"y", "b">>}
Changing == {"c1"}
KeyOrder == <<<<"x", "a">>, <<"x", "b">>, <<"y", "b">>>>

(* --------------------------- pods page state --------------------------- *)
VARIABLES
  pods,             \* let pods = $state<Pod[]>([])
  loading,          \* let loading = $state(false)
  error,            \* let error = $state('')
  unlisten,         \* let unlisten: (() => void) | null ; TRUE when set
  listenerOn,       \* the pod_event listener is registered with the event system
  mountPc,          \* position of the onMount callback
  destroyed,        \* onDestroy has run
  active,           \* clusterStore.active
  activeNamespace,  \* clusterStore.activeNamespace
  listCalls,        \* startWatch activations awaiting their list_pods reply
  startReqs,        \* start_pod_watch requests in flight
  subs,             \* backend: watch subscriptions, each with its event channel
  remote,           \* the remote clusters: context -> key -> revision (0 = absent)
  budget,           \* remaining environment events: remote changes, switches, faults
  calls,            \* number of startWatch calls made so far
  last,             \* history: the last step the page took
  expect,           \* history: per key, what the latest applied event says
  amd,              \* history: progress of Added(X), Modified(X), Deleted(X)
  created, now, ageOut   \* formatAge: creation instant, `now`, last result

pageVars == <<pods, loading, error, unlisten, listenerOn, mountPc, destroyed,
              active, activeNamespace, listCalls, startReqs, subs, remote,
              budget, calls, last, expect, amd>>
ageVars == <<created, now, ageOut>>

(* ------------------------- import modal state -------------------------- *)
VARIABLES
  importModalOpen,    \* +layout.svelte: let importModalOpen = $state(false)
  activeTab,          \* let activeTab = $state<"file" | "folder">("file")
  modalLoading,       \* let loading = $state(false)
  modalError,         \* let error = $state<string | null>(null); "none" is null
  discoveredContexts, \* let discoveredContexts = $state<...[]>([])
  selectedContexts,   \* let selectedContexts = $state<Set<string>>(new Set())
  disc,               \* position of the pending handleImportFile/Folder call
  imp,                \* position of the pending handleImportSelected call
  registry,           \* backend: the registered clusters
  clusters,           \* clustersStore.clusters
  attempts,           \* history: add_cluster invocations of the last batch
  entered,            \* history: per row, the display name typed into it
  mlast,              \* history: the last step of the modal
  sinceSwitch,        \* history: a tab was clicked and no discovery started since
  steps               \* remaining user gestures

modalVars == <<importModalOpen, activeTab, modalLoading, modalError,
               discoveredContexts, selectedContexts, disc, imp, registry,
               clusters, attempts, entered, mlast, sinceSwitch, steps>>

(* -------------------------- settings and theme ------------------------- *)
VARIABLES
  settingsItem,   \* localStorage item 'app-settings': the stored text
  settingsValue,  \* settingsStore.value
  rootClasses,    \* document.documentElement.classList
  effectRan,      \* the theme effect of the layout has run in this session
  wantTheme,      \* history: the theme of the last setTheme call
  wantInterval,   \* history: the interval of the last setRefreshInterval call
  slast,          \* history: the last step of the settings store
  sbudget         \* remaining settings steps

settingsVars == <<settingsItem, settingsValue, rootClasses, effectRan,
                  wantTheme, wantInterval, slast, sbudget>>

(* ------------------------------ DataTable ------------------------------ *)
VARIABLES
  data,          \* prop data: the rows, in the order the page passes them
  columns,       \* prop columns
  tableItem,     \* localStorage item `datatable-${storageKey}`: the stored text
  sortCol,       \* let sortCol = $state<string | null>(null); "null" is null
  sortDir,       \* let sortDir = $state<"asc" | "desc">("asc")
  selectedIds,   \* let selectedIds = $state<Set<any>>(new Set())
  afterToggle,   \* history: column id -> shown, as of the last toggleColumn
  tlast,         \* history: the last step of the table
  tbudget        \* remaining table steps

tableVars == <<data, columns, tableItem, sortCol, sortDir, selectedIds,
               afterToggle, tlast, tbudget>>

(* ------------------------ pods page: bulk delete ----------------------- *)
VARIABLES
  podSelection,  \* selectedIds of the table of the pods page (keyField="name")
  bulk,          \* position of the pending 'Delete Selected' action
  blast,         \* history: the last step of the bulk delete
  bbudget        \* remaining gestures on the pods table

(* -------------------------- cluster colour ------------------------------ *)
VARIABLES
  str,   \* getColorForString(str): the name, as its sequence of char codes
  hash,  \* let hash = 0
  at,    \* the loop index i, counted in characters consumed
  hue    \* const hue = hash % 360, once computed

colorVars == <<str, hash, at, hue>>

(* ---------------------------- ClusterStore ------------------------------ *)
VARIABLES
  list,          \* clusterStore.list
  namespaces,    \* clusterStore.namespaces
  storeLoading,  \* clusterStore.loading
  listing,       \* refresh calls waiting for list_contexts
  nsReqs,        \* list_namespaces requests in flight
  nsFrom,        \* history: the contextName of the request that last wrote namespaces
  storeLast,     \* history: what the last step of the store completed
  storeBudget    \* store operations still to come

storeVars == <<list, namespaces, storeLoading, listing, nsReqs, nsFrom,
               storeLast, storeBudget>>

\* the pods page without the two store fields it reads
pageRest == <<pods, loading, error, unlisten, listenerOn, mountPc, destroyed,
              listCalls, startReqs, subs, remote, budget, calls, last,
              expect, amd>>

(* ------------------------ Sidebar: debounced refresh ------------------- *)
VARIABLES
  sidebarPc,      \* Sidebar: "start", "listening" (await listen), "mounted", "destroyed"
  sidebarUnlisten,\* let unlisten: set once listen has resolved
  sidebarListener,\* the kubeconfig_update listener is registered
  refreshTimer,   \* let refreshTimer: the timer set last, named by its deadline
  timers,         \* the deadlines of the timers waiting in the event loop
  clock,          \* milliseconds since the application started
  lastNote,       \* history: when the last notification arrived
  burstLen,       \* history: notifications in the burst going on
  callsSince,     \* history: refresh calls since the last notification
  cleared,        \* history: onDestroy cleared the timer of the last notification
  debLast,        \* history: the last step of the sidebar
  notes,          \* notifications still to come
  advances        \* clock advances still to come

debounceVars == <<sidebarPc, sidebarUnlisten, sidebarListener, refreshTimer,
                  timers, clock, lastNote, burstLen, callsSince, cleared,
                  debLast, notes, advances>>

(* ------------------------ confirmed delete actions --------------------- *)
VARIABLES
  shownClusters,      \* overview page: clustersStore.clusters, by id
  deployments,        \* deployments page: let data = $state<any[]>([])
  remoteDeployments,  \* the deployments of the cluster
  dialogs,            \* delete handlers between their confirm() and their end
  loads,              \* loadData calls waiting for cluster_list_deployments
  invoked,            \* history: the delete commands invoked, each with the answer
                      \* its handler had received
  clast,              \* history: the last step of a delete handler
  cbudget             \* delete clicks still to come

confirmVars == <<shownClusters, deployments, remoteDeployments, dialogs, loads,
                 invoked, clast, cbudget>>

(* ----------------------- deployment detail drawer ---------------------- *)
VARIABLES
  showDrawer,          \* deployments page: let showDrawer, bound to the drawer's open
  selectedDeployment,  \* deployments page: let selectedDeployment, as (name, namespace)
  details,             \* drawer: let details; the deployment whose details are held
  drawerPods,          \* drawer: let pods; the deployment whose pods are held
  replicaSets,         \* drawer: let replicaSets
  events,              \* drawer: let events
  drawerLoading,       \* drawer: let loading
  detailLoads,         \* loadDeploymentDetails calls waiting for Promise.all
  drawerBudget         \* clicks still to come

drawerVars == <<showDrawer, selectedDeployment, details, drawerPods, replicaSets,
                events, drawerLoading, detailLoads, drawerBudget>>

notColor == <<storeVars, debounceVars, confirmVars, drawerVars>>
notStore == <<colorVars, debounceVars, confirmVars, drawerVars>>
notDebounce == <<colorVars, confirmVars, drawerVars>>
notConfirm == <<colorVars, storeVars, debounceVars, drawerVars>>
notDrawer == <<colorVars, storeVars, debounceVars, confirmVars>>

moreVars == <<colorVars, storeVars, debounceVars, confirmVars, drawerVars>>

bulkRest == <<bulk, blast, bbudget>>
bulkVars == <<podSelection, bulk, blast, bbudget>>

notModalUi == <<settingsVars, tableVars, bulkVars>>
notSettingsUi == <<modalVars, tableVars, bulkVars>>
notTableUi == <<modalVars, settingsVars, bulkVars>>
uiVars == <<modalVars, settingsVars, tableVars>>
vars == <<pageVars, ageVars, moreVars, uiVars, bulkVars>>

(* ------------------------------ helpers -------------------------------- *)
Pod(k, r) == [name |-> k[1], namespace |-> k[2], rev |-> r]

KeyOf(p) == <<p.name, p.namespace>>

InScope(k, ns) == ns = "all" \/ k[2] = ns

RECURSIVE SnapshotFrom(_, _, _)
SnapshotFrom(rem, ns, i) ==
  IF i > Len(KeyOrder) THEN <<>>
  ELSE LET k == KeyOrder[i]
           rest == SnapshotFrom(rem, ns, i + 1)
       IN IF rem[k] > 0 /\ InScope(k, ns) THEN <<Pod(k, rem[k])>> \o rest ELSE rest

\* the full list of the pods of a context within a namespace scope
Snapshot(ctx, ns) == SnapshotFrom(remote[ctx], ns, 1)

RemoveAt(s, i) == SubSeq(s, 1, i - 1) \o SubSeq(s, i + 1, Len(s))

DemoData == <<>>

NoLast == [op |-> "none"]

Unknown == <<>>

X == <<"x", "a">>

NoAmd == [stage |-> 0, mixed |-> FALSE]

\* the table of the page drops from its selection the keys (names) that no
\* row of the list carries any more
Prune(sel, ps) == {n \in sel : \E i \in 1..Len(ps) : ps[i].name = n}

(* ------------------------ the pod_event listener ----------------------- *)
\* pods.findIndex(p => p.name === newPod.name && p.namespace === newPod.namespace)
\* 1-based; 0 when no element matches
FindIndex(ps, np) ==
  LET hits == {i \in 1..Len(ps) : ps[i].name = np.name /\ ps[i].namespace = np.namespace}
  IN IF hits = {} THEN 0 ELSE CHOOSE i \in hits : \A j \in hits : i <= j

\* mutant: Restarted merged into the previous list
ApplyEvent_Merge(ps, e) ==
  IF e.type = "Restarted" THEN
    e.payload \o SelectSeq(ps, LAMBDA p : FindIndex(e.payload, p) = 0)
  ELSE IF e.type \in {"Added", "Modified"} THEN
    LET idx == FindIndex(ps, e.payload)
    IN IF idx >= 1 THEN [ps EXCEPT ![idx] = e.payload] ELSE Append(ps, e.payload)
  ELSE IF e.type = "Deleted" THEN
    SelectSeq(ps, LAMBDA p : ~(p.name = e.payload.name /\ p.namespace = e.payload.namespace))
  ELSE ps

\* mutant: findIndex compares the name only
ApplyEvent_NameOnly(ps, e) ==
  IF e.type = "Restarted" THEN e.payload
  ELSE IF e.type \in {"Added", "Modified"} THEN
    LET hits == {i \in 1..Len(ps) : ps[i].name = e.payload.name}
        idx == IF hits = {} THEN 0 ELSE CHOOSE i \in hits : \A j \in hits : i <= j
    IN IF idx >= 1 THEN [ps EXCEPT ![idx] = e.payload] ELSE Append(ps, e.payload)
  ELSE IF e.type = "Deleted" THEN
    SelectSeq(ps, LAMBDA p : ~(p.name = e.payload.name /\ p.namespace = e.payload.namespace))
  ELSE ps

\* mutant: Deleted filters by name only
ApplyEvent_DeleteByName(ps, e) ==
  IF e.type = "Restarted" THEN e.payload
  ELSE IF e.type \in {"Added", "Modified"} THEN
    LET idx == FindIndex(ps, e.payload)
    IN IF idx >= 1 THEN [ps EXCEPT ![idx] = e.payload] ELSE Append(ps, e.payload)
  ELSE IF e.type = "Deleted" THEN
    SelectSeq(ps, LAMBDA p : ~(p.name = e.payload.name))
  ELSE ps

ApplyEvent(ps, e) ==
  IF e.type = "Restarted" THEN e.payload
  ELSE IF e.type \in {"Added", "Modified"} THEN
    LET idx == FindIndex(ps, e.payload)
    IN IF idx >= 1 THEN [ps EXCEPT ![idx] = e.payload] ELSE Append(ps, e.payload)
  ELSE IF e.type = "Deleted" THEN
    SelectSeq(ps, LAMBDA p : ~(p.name = e.payload.name /\ p.namespace = e.payload.namespace))
  ELSE ps

(* ------------------------------ startWatch ----------------------------- *)
CanCall == Len(listCalls) < MaxCalls /\ calls < MaxStarts

\* the synchronous part of startWatch, up to `await invoke('list_pods', ...)`;
\* act and ns are the store values the call reads
StartWatchCall(act, ns) ==
  IF act = "" THEN
    UNCHANGED <<loading, error, listCalls, calls>>
  ELSE
    /\ loading' = TRUE
    /\ error' = ""
    /\ listCalls' = Append(listCalls, [ctx |-> act, ns |-> ns, st |-> "sent", res |-> <<>>])
    /\ calls' = calls + 1

\* the $effect that re-triggers the watch
EffectRun(act, ns) ==
  IF act # "" /\ ns # "" THEN StartWatchCall(act, ns)
  ELSE UNCHANGED <<loading, error, listCalls, calls>>

\* component mount: onMount runs up to `await listen(...)`, the effect runs once
Mount ==
  /\ mountPc = "start"
  /\ CanCall
  /\ mountPc' = "listening"
  /\ EffectRun(active, activeNamespace)
  /\ last' = NoLast
  /\ UNCHANGED <<ageVars, moreVars, uiVars, bulkRest, pods, podSelection, unlisten, listenerOn, destroyed, active, activeNamespace,
                 startReqs, subs, remote, budget, expect, amd>>

\* `await listen(...)` resolves: the listener is registered, unlisten is set,
\* onMount goes on to startWatch()
ListenResolved ==
  /\ mountPc = "listening"
  /\ CanCall
  /\ mountPc' = "done"
  /\ unlisten' = TRUE
  /\ listenerOn' = TRUE
  /\ StartWatchCall(active, activeNamespace)
  /\ last' = NoLast
  /\ UNCHANGED <<ageVars, moreVars, uiVars, bulkRest, pods, podSelection, destroyed, active, activeNamespace, startReqs, subs,
                 remote, budget, expect, amd>>

\* onDestroy: if (unlisten) unlisten()
Destroy ==
  /\ mountPc # "start"
  /\ ~destroyed
  /\ destroyed' = TRUE
  /\ listenerOn' = IF unlisten THEN FALSE ELSE listenerOn
  /\ last' = NoLast
  /\ UNCHANGED <<ageVars, moreVars, uiVars, bulkRest, calls, pods, podSelection, loading, error, unlisten, mountPc, active, activeNamespace,
                 listCalls, startReqs, subs, remote, budget, expect, amd>>

\* the DataTable refresh button: onRefresh={startWatch}
Refresh ==
  /\ mountPc # "start"
  /\ ~destroyed
  /\ CanCall
  /\ StartWatchCall(active, activeNamespace)
  /\ last' = NoLast
  /\ UNCHANGED <<ageVars, moreVars, uiVars, bulkRest, pods, podSelection, unlisten, listenerOn, mountPc, destroyed, active,
                 activeNamespace, startReqs, subs, remote, budget, expect, amd>>

\* the effect re-runs after a store change while the page is alive
AfterStoreChange(act, ns) ==
  IF mountPc # "start" /\ ~destroyed THEN EffectRun(act, ns)
  ELSE UNCHANGED <<loading, error, listCalls, calls>>

\* clusterStore.setActive(cluster), from the cluster dropdown
SetActive(c) ==
  /\ c # active
  /\ budget > 0
  /\ CanCall
  /\ active' = c
  /\ budget' = budget - 1
  /\ AfterStoreChange(c, activeNamespace)
  /\ last' = NoLast
  /\ UNCHANGED <<ageVars, moreVars, uiVars, bulkRest, pods, podSelection, unlisten, listenerOn, mountPc, destroyed, activeNamespace,
                 startReqs, subs, remote, expect, amd>>

\* clusterStore.setNamespace(ns), from the namespace dropdown
SetNamespace(ns) ==
  /\ ns # activeNamespace
  /\ budget > 0
  /\ CanCall
  /\ activeNamespace' = ns
  /\ budget' = budget - 1
  /\ AfterStoreChange(active, ns)
  /\ last' = NoLast
  /\ UNCHANGED <<ageVars, moreVars, uiVars, bulkRest, pods, podSelection, unlisten, listenerOn, mountPc, destroyed, active,
                 startReqs, subs, remote, expect, amd>>

\* backend: list_pods reads the remote cluster
BackendListPods(i) ==
  /\ listCalls[i].st = "sent"
  /\ listCalls' = [listCalls EXCEPT ![i].st = "ok",
                                    ![i].res = Snapshot(listCalls[i].ctx, listCalls[i].ns)]
  /\ UNCHANGED <<ageVars, moreVars, uiVars, bulkRest, calls, pods, podSelection, loading, error, unlisten, listenerOn, mountPc, destroyed,
                 active, activeNamespace, startReqs, subs, remote, budget, last,
                 expect, amd>>

\* backend: list_pods fails
BackendListPodsFail(i) ==
  /\ listCalls[i].st = "sent"
  /\ budget > 0
  /\ budget' = budget - 1
  /\ listCalls' = [listCalls EXCEPT ![i].st = "err"]
  /\ UNCHANGED <<ageVars, moreVars, uiVars, bulkRest, calls, pods, podSelection, loading, error, unlisten, listenerOn, mountPc, destroyed,
                 active, activeNamespace, startReqs, subs, remote, last, expect, amd>>

\* startWatch resumes after the await: try / catch / finally, then the
\* start_pod_watch request with the store values read at that moment
ListReply(i) ==
  /\ listCalls[i].st # "sent"
  /\ Len(startReqs) < MaxCalls
  /\ pods' = IF listCalls[i].st = "ok" THEN listCalls[i].res
             ELSE IF Len(pods) = 0 THEN DemoData ELSE pods
  /\ podSelection' = Prune(podSelection, pods')
  /\ loading' = FALSE
  /\ listCalls' = RemoveAt(listCalls, i)
  /\ startReqs' = Append(startReqs, [ctx |-> active, ns |-> activeNamespace])
  /\ last' = [op |-> "list"]
  /\ expect' = IF listCalls[i].st = "ok" THEN [k \in Keys |-> Unknown] ELSE expect
  /\ amd' = IF listCalls[i].st = "ok" THEN NoAmd ELSE amd
  /\ UNCHANGED <<ageVars, moreVars, uiVars, bulkRest, calls, error, unlisten, listenerOn, mountPc, destroyed, active,
                 activeNamespace, subs, remote, budget>>

(* --------------------- watch engine (from the design) ------------------ *)
Live(ctx, ns) ==
  \E j \in 1..Len(subs) : subs[j].ctx = ctx /\ subs[j].ns = ns /\ subs[j].state # "Stopped"

Restarted(ctx, ns) == [type |-> "Restarted", payload |-> Snapshot(ctx, ns)]

\* mutant: every start creates a subscription
BackendStartWatch_Dup(i) ==
  LET req == startReqs[i] IN
  /\ Len(subs) < MaxSubs
  /\ subs' = Append(subs, [ctx |-> req.ctx, ns |-> req.ns, state |-> "Watching",
                           chan |-> <<Restarted(req.ctx, req.ns)>>])
  /\ startReqs' = RemoveAt(startReqs, i)
  /\ last' = [op |-> "start", reused |-> Live(req.ctx, req.ns)]
  /\ UNCHANGED <<ageVars, moreVars, uiVars, bulkRest, calls, pods, podSelection, loading, error, unlisten, listenerOn, mountPc, destroyed,
                 active, activeNamespace, listCalls, remote, budget, expect, amd>>

\* start_watch: idempotent per tuple; a new subscription lists, emits one
\* Restarted(full_snapshot) and goes to Watching
BackendStartWatch(i) ==
  LET req == startReqs[i] IN
  /\ IF Live(req.ctx, req.ns) THEN subs' = subs
     ELSE /\ Len(subs) < MaxSubs
          /\ subs' = Append(subs, [ctx |-> req.ctx, ns |-> req.ns, state |-> "Watching",
                                   chan |-> <<Restarted(req.ctx, req.ns)>>])
  /\ startReqs' = RemoveAt(startReqs, i)
  /\ last' = [op |-> "start", reused |-> Live(req.ctx, req.ns)]
  /\ UNCHANGED <<ageVars, moreVars, uiVars, bulkRest, calls, pods, podSelection, loading, error, unlisten, listenerOn, mountPc, destroyed,
                 active, activeNamespace, listCalls, remote, budget, expect, amd>>

\* start_watch fails in Starting (CredentialError): the request is rejected;
\* the page's handler is .catch(e => console.error(...))
BackendStartFail(i) ==
  /\ budget > 0
  /\ budget' = budget - 1
  /\ startReqs' = RemoveAt(startReqs, i)
  /\ last' = [op |-> "startFailed"]
  /\ UNCHANGED <<ageVars, moreVars, uiVars, bulkRest, calls, pods, podSelection, loading, error, unlisten, listenerOn, mountPc, destroyed,
                 active, activeNamespace, listCalls, subs, remote, expect, amd>>

\* terminal failure of a watch: Stopped, one final error-bearing event
WatchFail(j) ==
  /\ subs[j].state = "Watching"
  /\ budget > 0
  /\ Len(subs[j].chan) < MaxChan
  /\ budget' = budget - 1
  /\ subs' = [subs EXCEPT ![j].state = "Stopped",
                          ![j].chan = Append(@, [type |-> "Error", payload |-> <<>>])]
  /\ UNCHANGED <<ageVars, moreVars, uiVars, bulkRest, calls, pods, podSelection, loading, error, unlisten, listenerOn, mountPc, destroyed,
                 active, activeNamespace, listCalls, startReqs, remote, last, expect, amd>>

\* resume token expired: Resyncing, then Listing again: one more Restarted
Resync(j) ==
  /\ subs[j].state = "Watching"
  /\ budget > 0
  /\ Len(subs[j].chan) < MaxChan
  /\ budget' = budget - 1
  /\ subs' = [subs EXCEPT ![j].chan = Append(@, Restarted(subs[j].ctx, subs[j].ns))]
  /\ UNCHANGED <<ageVars, moreVars, uiVars, bulkRest, calls, pods, podSelection, loading, error, unlisten, listenerOn, mountPc, destroyed,
                 active, activeNamespace, listCalls, startReqs, remote, last, expect, amd>>

Watches(j, ctx, k) ==
  subs[j].state = "Watching" /\ subs[j].ctx = ctx /\ InScope(k, subs[j].ns)

\* the remote stream: every Watching subscription whose tuple covers the
\* object gets the event appended to its own channel, in stream order
Emit(ctx, k, e) ==
  /\ \A j \in 1..Len(subs) : Watches(j, ctx, k) => Len(subs[j].chan) < MaxChan
  /\ subs' = [j \in 1..Len(subs) |->
                IF Watches(j, ctx, k) THEN [subs[j] EXCEPT !.chan = Append(@, e)]
                ELSE subs[j]]

RemoteChange(ctx, k, r) ==
  /\ budget > 0
  /\ budget' = budget - 1
  /\ remote' = [remote EXCEPT ![ctx][k] = r]
  /\ UNCHANGED <<ageVars, moreVars, uiVars, bulkRest, calls, pods, podSelection, loading, error, unlisten, listenerOn, mountPc, destroyed,
                 active, activeNamespace, listCalls, startReqs, last, expect, amd>>

RemoteAdd(ctx, k) ==
  /\ remote[ctx][k] = 0
  /\ RemoteChange(ctx, k, 1)
  /\ Emit(ctx, k, [type |-> "Added", payload |-> Pod(k, 1)])

RemoteModify(ctx, k) ==
  /\ remote[ctx][k] > 0
  /\ remote[ctx][k] < MaxRev
  /\ RemoteChange(ctx, k, remote[ctx][k] + 1)
  /\ Emit(ctx, k, [type |-> "Modified", payload |-> Pod(k, remote[ctx][k] + 1)])

RemoteDelete(ctx, k) ==
  /\ remote[ctx][k] > 0
  /\ RemoteChange(ctx, k, 0)
  /\ Emit(ctx, k, [type |-> "Deleted", payload |-> Pod(k, remote[ctx][k])])

(* --------------------------- event delivery ---------------------------- *)
RevIn(ps, k) ==
  LET hits == {i \in 1..Len(ps) : KeyOf(ps[i]) = k}
  IN IF hits = {} THEN 0 ELSE ps[CHOOSE i \in hits : \A j \in hits : i <= j].rev

ExpectAfter(ex, e) ==
  IF e.type = "Restarted" THEN [k \in Keys |-> <<RevIn(e.payload, k)>>]
  ELSE IF e.type \in {"Added", "Modified"} THEN [ex EXCEPT ![KeyOf(e.payload)] = <<e.payload.rev>>]
  ELSE IF e.type = "Deleted" THEN [ex EXCEPT ![KeyOf(e.payload)] = <<0>>]
  ELSE ex

AmdAfter(a, e) ==
  IF e.type \in {"Restarted", "Error"} THEN NoAmd
  ELSE IF KeyOf(e.payload) # X THEN
    [a EXCEPT !.mixed = (@ \/ a.stage \in {1, 2})]
  ELSE IF e.type = "Added" THEN [stage |-> 1, mixed |-> FALSE]
  ELSE IF e.type = "Modified" /\ a.stage \in {1, 2} THEN [a EXCEPT !.stage = 2]
  ELSE IF e.type = "Deleted" /\ a.stage = 2 THEN [a EXCEPT !.stage = 3]
  ELSE NoAmd

\* the event system hands the oldest undelivered event of a channel to the
\* registered pod_event listener; with no listener the event is lost
Deliver(j) ==
  /\ Len(subs[j].chan) > 0
  /\ LET e == Head(subs[j].chan) IN
     /\ subs' = [subs EXCEPT ![j].chan = Tail(@)]
     /\ IF listenerOn THEN
          /\ pods' = ApplyEvent(pods, e)
          /\ podSelection' = Prune(podSelection, pods')
          /\ last' = [op |-> "event", type |-> e.type, payload |-> e.payload,
                      src |-> <<subs[j].ctx, subs[j].ns>>, before |-> pods]
          /\ expect' = ExpectAfter(expect, e)
          /\ amd' = AmdAfter(amd, e)
        ELSE
          /\ last' = [op |-> "lost"]
          /\ UNCHANGED <<pods, podSelection, expect, amd>>
  /\ UNCHANGED <<ageVars, moreVars, uiVars, bulkRest, calls, loading, error, unlisten, listenerOn, mountPc, destroyed,
                 active, activeNamespace, listCalls, startReqs, remote, budget>>

(* ------------------------------ formatAge ------------------------------ *)
\* an optional creation_timestamp: <<>> when undefined, <<ms>> otherwise
Undefined == <<>>

Max0(n) == IF n > 0 THEN n ELSE 0

Age(n, u) == [n |-> n, unit |-> u]

NoAge == [created |-> <<>>, now |-> 0, out |-> Age(0, "")]

\* mutant: the minute bucket starts after 60 seconds instead of at 60
formatAge_Late(creationTimestamp, nowMs) ==
  IF creationTimestamp = Undefined THEN Age(0, "-")
  ELSE
    LET createdMs == creationTimestamp[1]
        diff == Max0(nowMs - createdMs)
        seconds == diff \div 1000
        minutes == seconds \div 60
        hours == minutes \div 60
        days == hours \div 24
    IN IF days > 0 THEN Age(days, "d")
       ELSE IF hours > 0 THEN Age(hours, "h")
       ELSE IF seconds > 60 THEN Age(minutes, "m")
       ELSE Age(seconds, "s")

\* formatAge(creationTimestamp), with `now` the page's clock
formatAge(creationTimestamp, nowMs) ==
  IF creationTimestamp = Undefined THEN Age(0, "-")
  ELSE
    LET createdMs == creationTimestamp[1]
        diff == Max0(nowMs - createdMs)
        seconds == diff \div 1000
        minutes == seconds \div 60
        hours == minutes \div 60
        days == hours \div 24
    IN IF days > 0 THEN Age(days, "d")
       ELSE IF hours > 0 THEN Age(hours, "h")
       ELSE IF minutes > 0 THEN Age(minutes, "m")
       ELSE Age(seconds, "s")

MaxDays == 2

Instant(d, h, m, sec, ms) == (((d * 24 + h) * 60 + m) * 60 + sec) * 1000 + ms

Instants ==
  {Instant(d, h, m, sec, ms) : d \in 0..MaxDays, h \in {0, 1, 23}, m \in {0, 1, 59},
                               sec \in {0, 1, 59}, ms \in {0, 999}}

Creations == {Undefined, <<0>>, <<Instant(0, 0, 0, 1, 999)>>, <<Instant(0, 1, 0, 0, 0)>>}

\* setInterval(() => { now = Date.now() }, 1000)
Tick ==
  /\ \E t \in Instants : t > now /\ now' = t
  /\ UNCHANGED <<created, ageOut, pageVars, moreVars, uiVars, bulkVars>>

\* the age cell is rendered: {formatAge(row.creation_timestamp) || value}
RenderAge ==
  /\ ageOut' = [created |-> created, now |-> now, out |-> formatAge(created, now)]
  /\ UNCHANGED <<created, now, pageVars, moreVars, uiVars, bulkVars>>

(* ---------------------------- import modal ----------------------------- *)
\* a context as import_discover_file / import_discover_folder returns it
Discovered(n, f) == [context_name |-> n, source_file |-> f]

\* what a file, and what a folder of files, can hold
FileResults ==
  { <<Discovered("dev", "f1")>>,
    <<Discovered("dev", "f1"), Discovered("prod", "f1")>> }

FolderResults ==
  { <<Discovered("dev", "f1"), Discovered("prod", "f2")>>,
    <<Discovered("dev", "f1"), Discovered("dev", "f2")>> }

DisplayNames == {"A"}
Icons == {"star"}
MaxRows == 2
MaxGestures == 5

NotEntered == [i \in 1..MaxRows |-> "none"]
Idle == [pc |-> "idle"]
NoStep == [op |-> "none"]

\* contexts.map((ctx) => ({ ...ctx, display_name: ctx.context_name, icon: "🌐" }))
WithDefaults(contexts) ==
  [i \in 1..Len(contexts) |->
     [context_name |-> contexts[i].context_name,
      source_file  |-> contexts[i].source_file,
      display_name |-> contexts[i].context_name,
      icon         |-> "globe"]]

Names(contexts) == {contexts[i].context_name : i \in 1..Len(contexts)}

\* the rows whose checkbox is checked: selectedContexts.has(ctx.context_name)
CheckedRows ==
  {i \in 1..Len(discoveredContexts) :
     discoveredContexts[i].context_name \in selectedContexts}

\* discoveredContexts.find((c) => c.context_name === contextName)
FindContext(contextName) ==
  LET hits == {i \in 1..Len(discoveredContexts) :
                 discoveredContexts[i].context_name = contextName}
  IN IF hits = {} THEN 0 ELSE CHOOSE i \in hits : \A j \in hits : i <= j

RECURSIVE Filter(_, _, _)
\* discoveredContexts.filter((ctx) => selectedContexts.has(ctx.context_name)),
\* each element kept with the row it came from
Filter(contexts, sel, i) ==
  IF i > Len(contexts) THEN <<>>
  ELSE IF contexts[i].context_name \in sel
       THEN <<i>> \o Filter(contexts, sel, i + 1)
       ELSE Filter(contexts, sel, i + 1)

Gesture == steps > 0 /\ steps' = steps - 1

\* the page is interactive unless the native file dialog is in front of it
Interactive == importModalOpen /\ disc.pc # "dialog"

openImportModal ==
  /\ ~importModalOpen /\ disc.pc # "dialog"
  /\ Gesture
  /\ importModalOpen' = TRUE
  /\ mlast' = [op |-> "open"]
  /\ UNCHANGED <<activeTab, modalLoading, modalError, discoveredContexts,
                 selectedContexts, disc, imp, registry, attempts, entered,
                 sinceSwitch>>
  /\ UNCHANGED <<clusters, pageVars, ageVars, moreVars, notModalUi>>

\* handleImportFile / handleImportFolder up to `await open(...)`; the button
\* is rendered while nothing is discovered and is disabled while loading
handleImport(tab) ==
  /\ Interactive /\ activeTab = tab
  /\ Len(discoveredContexts) = 0 /\ ~modalLoading
  /\ Gesture
  /\ modalLoading' = TRUE
  /\ modalError' = "none"
  /\ discoveredContexts' = <<>>
  /\ selectedContexts' = {}
  /\ disc' = [pc |-> "dialog", tab |-> tab]
  /\ sinceSwitch' = FALSE
  /\ mlast' = [op |-> "choose"]
  /\ UNCHANGED <<importModalOpen, activeTab, imp, registry, attempts, entered>>
  /\ UNCHANGED <<clusters, pageVars, ageVars, moreVars, notModalUi>>

handleImportFile == handleImport("file")

handleImportFolder == handleImport("folder")

\* open(...) resolved with null: loading = false; return
DialogCancelled ==
  /\ disc.pc = "dialog"
  /\ modalLoading' = FALSE
  /\ disc' = Idle
  /\ mlast' = [op |-> "cancelled"]
  /\ UNCHANGED <<importModalOpen, activeTab, modalError, discoveredContexts,
                 selectedContexts, imp, registry, attempts, entered,
                 sinceSwitch, steps>>
  /\ UNCHANGED <<clusters, pageVars, ageVars, moreVars, notModalUi>>

\* open(...) resolved with a path: invoke("import_discover_...") is sent
DialogPicked ==
  /\ disc.pc = "dialog"
  /\ disc' = [pc |-> "invoke", tab |-> disc.tab]
  /\ mlast' = [op |-> "picked"]
  /\ UNCHANGED <<importModalOpen, activeTab, modalLoading, modalError,
                 discoveredContexts, selectedContexts, imp, registry,
                 attempts, entered, sinceSwitch, steps>>
  /\ UNCHANGED <<clusters, pageVars, ageVars, moreVars, notModalUi>>

\* the discovery resolved: the rest of the try block, then finally
Discovery(contexts) ==
  /\ disc.pc = "invoke"
  /\ discoveredContexts' = WithDefaults(contexts)
  /\ selectedContexts' = selectedContexts \cup Names(contexts)
  /\ modalLoading' = FALSE
  /\ disc' = Idle
  /\ entered' = NotEntered
  /\ mlast' = [op |-> "discovered"]
  /\ UNCHANGED <<importModalOpen, activeTab, modalError, imp, registry,
                 attempts, sinceSwitch, steps>>
  /\ UNCHANGED <<clusters, pageVars, ageVars, moreVars, notModalUi>>

DiscoveryResolved ==
  \E contexts \in (IF disc.pc = "invoke" /\ disc.tab = "folder"
                   THEN FolderResults ELSE FileResults) : Discovery(contexts)

\* the discovery rejected: catch, then finally
DiscoveryRejected ==
  /\ disc.pc = "invoke"
  /\ modalError' = "discover"
  /\ modalLoading' = FALSE
  /\ disc' = Idle
  /\ mlast' = [op |-> "discoverFailed"]
  /\ UNCHANGED <<importModalOpen, activeTab, discoveredContexts,
                 selectedContexts, imp, registry, attempts, entered,
                 sinceSwitch, steps>>
  /\ UNCHANGED <<clusters, pageVars, ageVars, moreVars, notModalUi>>

\* onclick of a tab button
SwitchTab(tab) ==
  /\ Interactive
  /\ Gesture
  /\ activeTab' = tab
  /\ discoveredContexts' = <<>>
  /\ selectedContexts' = {}
  /\ modalError' = "none"
  /\ sinceSwitch' = (sinceSwitch \/ tab # activeTab)
  /\ mlast' = [op |-> "tab"]
  /\ UNCHANGED <<importModalOpen, modalLoading, disc, imp, registry, attempts,
                 entered>>
  /\ UNCHANGED <<clusters, pageVars, ageVars, moreVars, notModalUi>>

\* the checkbox of row i: toggleContext(ctx.context_name)
toggleContext(i) ==
  /\ Interactive /\ i \in 1..Len(discoveredContexts)
  /\ Gesture
  /\ LET contextName == discoveredContexts[i].context_name
     IN selectedContexts' =
          IF contextName \in selectedContexts
          THEN selectedContexts \ {contextName}
          ELSE selectedContexts \cup {contextName}
  /\ mlast' = [op |-> "toggle", row |-> i, checked |-> CheckedRows,
               rows |-> discoveredContexts]
  /\ UNCHANGED <<importModalOpen, activeTab, modalLoading, modalError,
                 discoveredContexts, disc, imp, registry, attempts, entered,
                 sinceSwitch>>
  /\ UNCHANGED <<clusters, pageVars, ageVars, moreVars, notModalUi>>

\* the name input of row i: updateDisplayName(ctx.context_name, value)
updateDisplayName(i, value) ==
  /\ Interactive /\ i \in 1..Len(discoveredContexts)
  /\ Gesture
  /\ LET c == FindContext(discoveredContexts[i].context_name)
     IN /\ discoveredContexts' =
             [discoveredContexts EXCEPT ![c].display_name = value]
        /\ imp' = IF imp.pc = "adding"
                  THEN [imp EXCEPT !.rows[c].display_name = value] ELSE imp
  /\ entered' = [entered EXCEPT ![i] = value]
  /\ mlast' = [op |-> "edit", row |-> i, checked |-> CheckedRows,
               rows |-> discoveredContexts]
  /\ UNCHANGED <<importModalOpen, activeTab, modalLoading, modalError,
                 selectedContexts, disc, registry, attempts, sinceSwitch,
                 clusters>>
  /\ UNCHANGED <<pageVars, ageVars, moreVars, notModalUi>>

\* the icon input of row i: updateIcon(ctx.context_name, value)
updateIcon(i, icon) ==
  /\ Interactive /\ i \in 1..Len(discoveredContexts)
  /\ Gesture
  /\ LET c == FindContext(discoveredContexts[i].context_name)
     IN /\ discoveredContexts' = [discoveredContexts EXCEPT ![c].icon = icon]
        /\ imp' = IF imp.pc = "adding"
                  THEN [imp EXCEPT !.rows[c].icon = icon] ELSE imp
  /\ mlast' = [op |-> "edit", row |-> i, checked |-> CheckedRows,
               rows |-> discoveredContexts]
  /\ UNCHANGED <<importModalOpen, activeTab, modalLoading, modalError,
                 selectedContexts, disc, registry, attempts, entered,
                 sinceSwitch, clusters>>
  /\ UNCHANGED <<pageVars, ageVars, moreVars, notModalUi>>

\* handleImportSelected up to its first await; the button is rendered while
\* something is discovered, disabled while loading or nothing is selected
handleImportSelected ==
  /\ Interactive
  /\ Len(discoveredContexts) > 0 /\ ~modalLoading /\ selectedContexts # {}
  /\ Gesture
  /\ modalLoading' = TRUE
  /\ modalError' = "none"
  /\ imp' = [pc |-> "adding",
             toImport |-> Filter(discoveredContexts, selectedContexts, 1),
             k |-> 1, rows |-> discoveredContexts, checked |-> CheckedRows]
  /\ attempts' = <<>>
  /\ mlast' = [op |-> "import"]
  /\ UNCHANGED <<importModalOpen, activeTab, discoveredContexts,
                 selectedContexts, disc, registry, entered, sinceSwitch>>
  /\ UNCHANGED <<clusters, pageVars, ageVars, moreVars, notModalUi>>

\* the k-th element of toImport: the elements are the objects of the list
\* (imp.rows), so an edit made since the click is seen
ToImportAt(k) == imp.rows[imp.toImport[k]]

\* the arguments of invoke("import_add_cluster", ...) for one context
AddClusterArgs(ctx) ==
  [name         |-> ctx.display_name,
   context_name |-> ctx.context_name,
   source_file  |-> ctx.source_file,
   icon         |-> IF ctx.icon # "globe" THEN ctx.icon ELSE "null"]

\* what the user asked for in row i
Wanted(i) ==
  IF entered[i] # "none" THEN entered[i] ELSE imp.rows[i].context_name

Attempt(k) ==
  [args |-> AddClusterArgs(ToImportAt(k)), row |-> imp.toImport[k],
   want |-> Wanted(imp.toImport[k])]

\* backend import_add_cluster, when it succeeds: one more registered cluster,
\* the others untouched (the add is atomic: a failed add leaves nothing)
RegistryAdd(reg, args) == Append(reg, args)

\* import_add_cluster resolved: the cluster is registered, the loop goes on
AddClusterResolved ==
  /\ imp.pc = "adding" /\ imp.k <= Len(imp.toImport)
  /\ registry' = RegistryAdd(registry, AddClusterArgs(ToImportAt(imp.k)))
  /\ attempts' = Append(attempts, Attempt(imp.k))
  /\ imp' = [imp EXCEPT !.k = imp.k + 1]
  /\ mlast' = [op |-> "added"]
  /\ UNCHANGED <<importModalOpen, activeTab, modalLoading, modalError,
                 discoveredContexts, selectedContexts, disc, entered,
                 sinceSwitch, steps>>
  /\ UNCHANGED <<clusters, pageVars, ageVars, moreVars, notModalUi>>

AddClusterRejected_Continue ==
  /\ imp.pc = "adding" /\ imp.k <= Len(imp.toImport)
  /\ attempts' = Append(attempts, Attempt(imp.k))
  /\ modalError' = "import"
  /\ imp' = [imp EXCEPT !.k = imp.k + 1]
  /\ mlast' = [op |-> "addFailed", registry |-> registry,
               open |-> importModalOpen, attempts |-> attempts']
  /\ UNCHANGED <<importModalOpen, activeTab, discoveredContexts, modalLoading,
                 selectedContexts, disc, registry, entered, sinceSwitch, steps>>
  /\ UNCHANGED <<clusters, pageVars, ageVars, moreVars, notModalUi>>

\* import_add_cluster rejected: nothing is registered (the add is atomic),
\* catch sets the error, finally clears loading
AddClusterRejected ==
  /\ imp.pc = "adding" /\ imp.k <= Len(imp.toImport)
  /\ attempts' = Append(attempts, Attempt(imp.k))
  /\ modalError' = "import"
  /\ modalLoading' = FALSE
  /\ imp' = Idle
  /\ mlast' = [op |-> "addFailed", registry |-> registry,
               open |-> importModalOpen, attempts |-> attempts']
  /\ UNCHANGED <<importModalOpen, activeTab, discoveredContexts,
                 selectedContexts, disc, registry, entered, sinceSwitch, steps>>
  /\ UNCHANGED <<clusters, pageVars, ageVars, moreVars, notModalUi>>

\* every add resolved: await clustersStore.load(); onClose(); finally
ImportDone ==
  /\ imp.pc = "adding" /\ imp.k > Len(imp.toImport)
  /\ importModalOpen' = FALSE
  /\ modalLoading' = FALSE
  /\ imp' = Idle
  /\ clusters' = registry
  /\ mlast' = [op |-> "imported", rows |-> imp.rows, checked |-> imp.checked]
  /\ UNCHANGED <<activeTab, modalError, discoveredContexts, selectedContexts,
                 disc, registry, attempts, entered, sinceSwitch, steps>>
  /\ UNCHANGED <<pageVars, ageVars, moreVars, notModalUi>>

\* the close button, the backdrop and Cancel
handleClose ==
  /\ Interactive
  /\ Gesture
  /\ discoveredContexts' = <<>>
  /\ selectedContexts' = {}
  /\ modalError' = "none"
  /\ importModalOpen' = FALSE
  /\ mlast' = [op |-> "close"]
  /\ UNCHANGED <<activeTab, modalLoading, disc, imp, registry, attempts,
                 entered, sinceSwitch>>
  /\ UNCHANGED <<clusters, pageVars, ageVars, moreVars, notModalUi>>

(* -------------------------- settings and theme ------------------------- *)
\* export type Theme
Themes == {"kore", "kore-light", "rusty", "rusty-light", "dracula", "alucard"}

\* refresh intervals the settings page offers, in ms
Intervals == {1000, 5000}

DefaultSettings == [theme |-> "kore", refreshInterval |-> 5000]

\* JSON values and texts.  A text is the list of the members written between
\* its braces; a text whose closing brace is missing is not valid JSON.
JStr(x) == [t |-> "string", s |-> x, n |-> 0]
JNum(x) == [t |-> "number", s |-> "", n |-> x]
Member(k, v) == [key |-> k, val |-> v]
JText(members) == [members |-> members, closed |-> TRUE]
NoItem == [members |-> <<>>, closed |-> FALSE, absent |-> TRUE]
Garbage == [members |-> <<>>, closed |-> FALSE]

\* JSON.stringify(this.value)
Stringify(value) ==
  JText(<<Member("theme", JStr(value.theme)),
          Member("refreshInterval", JNum(value.refreshInterval))>>)

\* JSON.parse(stored): the value of a key is that of its last member
Throws(text) == ~text.closed

Has(text, k) == \E i \in 1..Len(text.members) : text.members[i].key = k

Get(text, k) ==
  LET hits == {i \in 1..Len(text.members) : text.members[i].key = k}
      i == CHOOSE i \in hits : \A j \in hits : j <= i
  IN text.members[i].val

Merge_DefaultsWin(value, text) == value

\* { ...this.value, ...parsed }
Merge(value, text) ==
  [theme |-> IF Has(text, "theme") THEN Get(text, "theme").s ELSE value.theme,
   refreshInterval |->
     IF Has(text, "refreshInterval") THEN Get(text, "refreshInterval").n
     ELSE value.refreshInterval]

\* what localStorage can hold when the application starts
StoredTexts ==
  { NoItem, Garbage,
    JText(<<Member("theme", JStr("dracula"))>>),
    JText(<<Member("theme", JStr("solarized")),
            Member("refreshInterval", JNum(1000))>>) }

\* new SettingsStore(): the constructor
SettingsStoreNew(item) ==
  IF "absent" \in DOMAIN item THEN [ok |-> TRUE, value |-> DefaultSettings]
  ELSE IF Throws(item) THEN [ok |-> TRUE, value |-> DefaultSettings]
  ELSE [ok |-> TRUE, value |-> Merge(DefaultSettings, item)]

\* the $effect of +layout.svelte
ThemeEffect(classes, value) == (classes \ Themes) \cup {value.theme}

SettingsStep == sbudget > 0 /\ sbudget' = sbudget - 1

\* the layout is mounted: its theme effect runs for the first time
LayoutEffect ==
  /\ ~effectRan
  /\ effectRan' = TRUE
  /\ rootClasses' = ThemeEffect(rootClasses, settingsValue)
  /\ slast' = [op |-> "effect"]
  /\ UNCHANGED <<settingsItem, settingsValue, wantTheme, wantInterval, sbudget>>
  /\ UNCHANGED <<pageVars, ageVars, moreVars, notSettingsUi>>

\* setTheme, save, and the re-run of the theme effect
setTheme(theme) ==
  /\ effectRan
  /\ SettingsStep
  /\ settingsValue' = [settingsValue EXCEPT !.theme = theme]
  /\ settingsItem' = Stringify(settingsValue')
  /\ rootClasses' = ThemeEffect(rootClasses, settingsValue')
  /\ wantTheme' = theme
  /\ slast' = [op |-> "setTheme"]
  /\ UNCHANGED <<effectRan, wantInterval>>
  /\ UNCHANGED <<pageVars, ageVars, moreVars, notSettingsUi>>

\* setRefreshInterval and save
setRefreshInterval(ms) ==
  /\ effectRan
  /\ SettingsStep
  /\ settingsValue' = [settingsValue EXCEPT !.refreshInterval = ms]
  /\ settingsItem' = Stringify(settingsValue')
  /\ wantInterval' = <<ms>>
  /\ slast' = [op |-> "setRefreshInterval"]
  /\ UNCHANGED <<rootClasses, effectRan, wantTheme>>
  /\ UNCHANGED <<pageVars, ageVars, moreVars, notSettingsUi>>

\* the application is started again: a new document, a new settings store
\* constructed from the same localStorage
Restart ==
  /\ SettingsStep
  /\ settingsValue' = SettingsStoreNew(settingsItem).value
  /\ rootClasses' = {}
  /\ effectRan' = FALSE
  /\ slast' = [op |-> "construct", ok |-> SettingsStoreNew(settingsItem).ok,
               item |-> settingsItem]
  /\ UNCHANGED <<settingsItem, wantTheme, wantInterval>>
  /\ UNCHANGED <<pageVars, ageVars, moreVars, notSettingsUi>>

(* ------------------------------ DataTable ------------------------------ *)
\* a column as a page declares it; visible is "undefined" when not given and
\* sortKey is "" when not given
Column(id, sortable, visible, sortKey) ==
  [id |-> id, sortable |-> sortable, visible |-> visible, sortKey |-> sortKey]

Declared ==
  << Column("name", TRUE, "undefined", ""),
     Column("age", TRUE, "false", "created"),
     Column("status", FALSE, "true", "") >>

ColumnIds == {Declared[i].id : i \in 1..Len(Declared)}

\* a row: its key and two cells, each <<n>> or <<>> when the row has none
Row(id, name, stamp) == [id |-> id, name |-> name, created |-> stamp]

DataSets ==
  { <<>>,
    << Row("p1", <<2>>, <<1>>), Row("p2", <<1>>, <<>>), Row("p3", <<>>, <<2>>) >>,
    << Row("p1", <<2>>, <<1>>), Row("p3", <<>>, <<2>>) >>,
    << Row("p3", <<1>>, <<>>), Row("p1", <<1>>, <<>>), Row("p2", <<>>, <<1>>) >>,
    << Row("p1", <<1>>, <<1>>), Row("p1", <<2>>, <<>>) >> }

\* data.map((r) => r[keyField])
RowKeys(rows) == {rows[i].id : i \in 1..Len(rows)}

\* columns.find((c) => c.id === colId); 0 when there is none
FindColumn(cols, colId) ==
  LET hits == {i \in 1..Len(cols) : cols[i].id = colId}
  IN IF hits = {} THEN 0 ELSE CHOOSE i \in hits : \A j \in hits : i <= j

\* c.visible !== false
Shown(c) == c.visible # "false"

\* the text JSON.stringify(columns.map((c) => ({ id: c.id, visible: c.visible })))
\* writes: a member whose value is undefined is left out
SavedColumn(c) ==
  [id |-> c.id,
   visible |-> IF c.visible = "undefined" THEN "omitted" ELSE c.visible]

StringifyColumns(cols) ==
  [entries |-> [i \in 1..Len(cols) |-> SavedColumn(cols[i])], closed |-> TRUE]

NoTableItem == [entries |-> <<>>, closed |-> FALSE, absent |-> TRUE]
TableGarbage == [entries |-> <<>>, closed |-> FALSE]

\* what localStorage can hold for the table when it is first mounted
TableTexts ==
  { NoTableItem, TableGarbage,
    [entries |-> <<[id |-> "age", visible |-> "true"]>>, closed |-> TRUE],
    [entries |-> <<[id |-> "name", visible |-> "omitted"],
                   [id |-> "gone", visible |-> "false"]>>, closed |-> TRUE] }

\* savedCols.find((sc) => sc.id === c.id); 0 when there is none
FindSaved(text, id) ==
  LET hits == {i \in 1..Len(text.entries) : text.entries[i].id = id}
  IN IF hits = {} THEN 0 ELSE CHOOSE i \in hits : \A j \in hits : i <= j

MergeSaved_TruthyOnly(c, text) ==
  LET i == FindSaved(text, c.id)
  IN IF i # 0 /\ text.entries[i].visible = "true"
     THEN [c EXCEPT !.visible = text.entries[i].visible]
     ELSE c

\* one column of the merge: the saved visibility when there is one
MergeSaved(c, text) ==
  LET i == FindSaved(text, c.id)
  IN IF i # 0 /\ text.entries[i].visible # "omitted"
     THEN [c EXCEPT !.visible = text.entries[i].visible]
     ELSE c

\* the initialising $effect: columns after the merge with the stored text
InitColumns(cols, text) ==
  IF "absent" \in DOMAIN text \/ ~text.closed THEN cols
  ELSE [i \in 1..Len(cols) |-> MergeSaved(cols[i], text)]

\* the comparator of sortedData; `key` is col.sortKey || sortCol
SortKeyOf(cols, col) ==
  LET c == cols[FindColumn(cols, col)]
  IN IF c.sortKey # "" THEN c.sortKey ELSE col

Cell(row, key) == IF key \in DOMAIN row THEN row[key] ELSE <<>>

Compare_MissingLast(a, b, key, dir) ==
  LET valA == Cell(a, key)
      valB == Cell(b, key)
  IN IF valA = <<>> THEN 1
     ELSE IF valB = <<>> THEN -1
     ELSE IF valA[1] < valB[1] THEN (IF dir = "asc" THEN -1 ELSE 1)
     ELSE IF valA[1] > valB[1] THEN (IF dir = "asc" THEN 1 ELSE -1)
     ELSE 0

Compare(a, b, key, dir) ==
  LET valA == Cell(a, key)
      valB == Cell(b, key)
  IN IF valA = <<>> THEN (IF dir = "asc" THEN 1 ELSE -1)
     ELSE IF valB = <<>> THEN (IF dir = "asc" THEN -1 ELSE 1)
     ELSE IF valA[1] < valB[1] THEN (IF dir = "asc" THEN -1 ELSE 1)
     ELSE IF valA[1] > valB[1] THEN (IF dir = "asc" THEN 1 ELSE -1)
     ELSE 0

\* Array.prototype.sort on a short array: each element is inserted into the
\* sorted prefix, after every element it does not compare below
RECURSIVE InsertRow(_, _, _, _, _)
InsertRow(x, sorted, i, key, dir) ==
  IF i > Len(sorted) THEN Append(sorted, x)
  ELSE IF Compare(x, sorted[i], key, dir) < 0
       THEN SubSeq(sorted, 1, i - 1) \o <<x>> \o SubSeq(sorted, i, Len(sorted))
       ELSE InsertRow(x, sorted, i + 1, key, dir)

RECURSIVE SortRows(_, _, _, _)
SortRows(rows, n, key, dir) ==
  IF n = 0 THEN <<>>
  ELSE InsertRow(rows[n], SortRows(rows, n - 1, key, dir), 1, key, dir)

\* const sortedData = $derived([...data].sort(...))
SortedData(rows, cols, col, dir) ==
  IF col = "null" \/ FindColumn(cols, col) = 0 THEN rows
  ELSE SortRows(rows, Len(rows), SortKeyOf(cols, col), dir)

sortedData == SortedData(data, columns, sortCol, sortDir)

\* const allSelected = $derived(data.length > 0 && selectedIds.size === data.length)
allSelected == Len(data) > 0 /\ Cardinality(selectedIds) = Len(data)

\* const isIndeterminate = $derived(selectedIds.size > 0 && selectedIds.size < data.length)
isIndeterminate == Cardinality(selectedIds) > 0 /\ Cardinality(selectedIds) < Len(data)

TableStep == tbudget > 0 /\ tbudget' = tbudget - 1

\* the table is mounted again with the declared columns: the initialising
\* effect, then the saving effect
MountTable ==
  /\ TableStep
  /\ columns' = InitColumns(Declared, tableItem)
  /\ tableItem' = StringifyColumns(columns')
  /\ sortCol' = "null"
  /\ sortDir' = "asc"
  /\ selectedIds' = {}
  /\ tlast' = [op |-> "mount", item |-> tableItem]
  /\ UNCHANGED <<data, afterToggle>>
  /\ UNCHANGED <<pageVars, ageVars, moreVars, notTableUi>>

\* an entry of the column menu: toggleColumn, then the saving effect
toggleColumn(colId) ==
  /\ TableStep
  /\ columns' = [i \in 1..Len(columns) |->
                   IF columns[i].id = colId
                   THEN [columns[i] EXCEPT !.visible =
                           IF columns[i].visible = "undefined" THEN "false"
                           ELSE IF columns[i].visible = "true" THEN "false"
                           ELSE "true"]
                   ELSE columns[i]]
  /\ tableItem' = StringifyColumns(columns')
  /\ afterToggle' = [id \in ColumnIds |->
                       Shown(columns'[FindColumn(columns', id)])]
  /\ tlast' = [op |-> "toggle"]
  /\ UNCHANGED <<data, sortCol, sortDir, selectedIds>>
  /\ UNCHANGED <<pageVars, ageVars, moreVars, notTableUi>>

\* the click on the header of a visible column
handleSort(colId) ==
  /\ TableStep
  /\ FindColumn(columns, colId) # 0 /\ Shown(columns[FindColumn(columns, colId)])
  /\ IF ~columns[FindColumn(columns, colId)].sortable
     THEN UNCHANGED <<sortCol, sortDir>>
     ELSE IF sortCol = colId
          THEN /\ sortDir' = (IF sortDir = "asc" THEN "desc" ELSE "asc")
               /\ UNCHANGED sortCol
          ELSE /\ sortCol' = colId
               /\ sortDir' = "asc"
  /\ tlast' = [op |-> "sort", col |-> colId, sortCol |-> sortCol,
               sortDir |-> sortDir]
  /\ UNCHANGED <<data, columns, tableItem, selectedIds, afterToggle>>
  /\ UNCHANGED <<pageVars, ageVars, moreVars, notTableUi>>

\* the checkbox of a row
toggleRow(id, checked) ==
  /\ TableStep
  /\ id \in RowKeys(data)
  /\ checked = (id \notin selectedIds)
  /\ selectedIds' = IF checked THEN selectedIds \cup {id}
                    ELSE selectedIds \ {id}
  /\ tlast' = [op |-> "row"]
  /\ UNCHANGED <<data, columns, tableItem, sortCol, sortDir, afterToggle>>
  /\ UNCHANGED <<pageVars, ageVars, moreVars, notTableUi>>

\* the checkbox of the header
toggleSelectAll(checked) ==
  /\ TableStep
  /\ selectedIds' = IF checked THEN RowKeys(data) ELSE {}
  /\ tlast' = [op |-> "all", checked |-> checked]
  /\ UNCHANGED <<data, columns, tableItem, sortCol, sortDir, afterToggle>>
  /\ UNCHANGED <<pageVars, ageVars, moreVars, notTableUi>>

DataChanged_NoPrune(rows) ==
  /\ TableStep
  /\ rows # data
  /\ data' = rows
  /\ UNCHANGED selectedIds
  /\ tlast' = [op |-> "data"]
  /\ UNCHANGED <<columns, tableItem, sortCol, sortDir, afterToggle>>
  /\ UNCHANGED <<pageVars, ageVars, moreVars, notTableUi>>

\* the page passes other rows: the $effect that prunes the selection runs
DataChanged(rows) ==
  /\ TableStep
  /\ rows # data
  /\ data' = rows
  /\ selectedIds' = {id \in selectedIds : id \in RowKeys(rows)}
  /\ tlast' = [op |-> "data"]
  /\ UNCHANGED <<columns, tableItem, sortCol, sortDir, afterToggle>>
  /\ UNCHANGED <<pageVars, ageVars, moreVars, notTableUi>>

\* a button of the batch bar: action.action(Array.from(selectedIds)), then
\* the selection is cleared
BatchAction ==
  /\ TableStep
  /\ selectedIds # {}
  /\ selectedIds' = {}
  /\ tlast' = [op |-> "batch", ids |-> selectedIds]
  /\ UNCHANGED <<data, columns, tableItem, sortCol, sortDir, afterToggle>>
  /\ UNCHANGED <<pageVars, ageVars, moreVars, notTableUi>>

(* ---------------------- delete commands and their log ------------------ *)
\* an invocation of a delete command, with the value of `confirmed` in the
\* handler that made it
Command(cmd, id, answer) == [cmd |-> cmd, id |-> id, answer |-> answer]

\* the rows the three pages display
Displayed == [clusters |-> shownClusters, pods |-> pods, deployments |-> deployments]

(* ------------------------ pods page: bulk delete ----------------------- *)
\* pods.find((p) => p.name === name); 0 when there is none
FindPod(ps, name) ==
  LET hits == {i \in 1..Len(ps) : ps[i].name = name}
  IN IF hits = {} THEN 0 ELSE CHOOSE i \in hits : \A j \in hits : i <= j

\* the rows of the table whose checkbox is checked
CheckedPods(ps, sel) == {KeyOf(ps[i]) : i \in {j \in 1..Len(ps) : ps[j].name \in sel}}

\* the delete_pod invocations of the batch action: per (name, namespace),
\* how many of them carry it
DeleteCalls(ps, ids) ==
  [k \in Keys |->
     Cardinality({n \in ids : FindPod(ps, n) # 0 /\ KeyOf(ps[FindPod(ps, n)]) = k})]

BulkStep == bbudget > 0 /\ bbudget' = bbudget - 1

\* the checkbox of row i of the pods table: toggleRow(row.name, checked)
togglePod(i) ==
  /\ BulkStep
  /\ i \in 1..Len(pods)
  /\ podSelection' = IF pods[i].name \in podSelection
                     THEN podSelection \ {pods[i].name}
                     ELSE podSelection \cup {pods[i].name}
  /\ blast' = [op |-> "row"]
  /\ UNCHANGED bulk
  /\ UNCHANGED <<pageVars, ageVars, moreVars, uiVars>>

\* 'Delete Selected' of the batch bar: the action is called with the selected
\* names and awaits the confirmation; the table clears its selection
DeleteSelected ==
  /\ BulkStep
  /\ bulk.pc = "idle" /\ podSelection # {}
  /\ bulk' = [pc |-> "confirm", ids |-> podSelection,
              rows |-> CheckedPods(pods, podSelection)]
  /\ podSelection' = {}
  /\ blast' = [op |-> "batch"]
  /\ UNCHANGED <<pageVars, ageVars, moreVars, uiVars>>

\* the confirmation is declined
ConfirmDeclined ==
  /\ bulk.pc = "confirm"
  /\ bulk' = Idle
  /\ blast' = [op |-> "declined"]
  /\ clast' = [op |-> "declined", invoked |-> invoked, shown |-> Displayed]
  /\ UNCHANGED <<podSelection, bbudget>>
  /\ UNCHANGED <<shownClusters, deployments, remoteDeployments, dialogs, loads,
                 invoked, cbudget>>
  /\ UNCHANGED <<pageVars, ageVars, notConfirm, uiVars>>

\* the confirmation is given: one delete_pod per selected name whose pod is
\* found in the list
ConfirmGiven ==
  /\ bulk.pc = "confirm"
  /\ bulk' = Idle
  /\ blast' = [op |-> "deleted", rows |-> bulk.rows,
               present |-> {KeyOf(pods[i]) : i \in 1..Len(pods)},
               calls |-> DeleteCalls(pods, bulk.ids)]
  /\ invoked' = invoked \cup
       {Command("delete_pod", k, TRUE) : k \in {q \in Keys : DeleteCalls(pods, bulk.ids)[q] > 0}}
  /\ clast' = [op |-> "confirmed", invoked |-> invoked, shown |-> Displayed]
  /\ UNCHANGED <<podSelection, bbudget>>
  /\ UNCHANGED <<shownClusters, deployments, remoteDeployments, dialogs, loads,
                 cbudget>>
  /\ UNCHANGED <<pageVars, ageVars, notConfirm, uiVars>>

(* --------------------------- getColorForString ------------------------- *)
\* JavaScript numbers in this function are integers of up to 2^31 + |hash|;
\* a number n is held as two limbs, n = hi * 2^16 + lo with lo in 0..2^16-1
Limb == 2^16

Num(hi, lo) == [hi |-> hi, lo |-> lo]

Norm(hi, lo) == Num(hi + (lo \div Limb), lo % Limb)

\* ToInt32: the value modulo 2^32, read as a signed 32-bit integer
ToInt32(n) ==
  LET h == n.hi % Limb
  IN Num(IF h >= Limb \div 2 THEN h - Limb ELSE h, n.lo)

\* hash << 5: ToInt32(hash) shifted left, the result again a signed 32-bit
\* integer
ShiftLeft5(n) ==
  LET m == ToInt32(n)
      low == m.lo * 32
      high == ((m.hi % Limb) * 32 + (low \div Limb)) % Limb
  IN ToInt32(Num(high, low % Limb))

Minus(a, b) == Norm(a.hi - b.hi, a.lo - b.lo)

Plus(code, a) == Norm(a.hi, a.lo + code)

\* hash % 360: the remainder takes the sign of the dividend
Rem360(n) ==
  LET m == ((n.hi % 360) * (Limb % 360) + n.lo) % 360
  IN IF n.hi >= 0 \/ m = 0 THEN m ELSE m - 360

NoHue == <<>>

\* one turn of the loop: hash = str.charCodeAt(i) + ((hash << 5) - hash)
HashStep ==
  /\ hue = NoHue
  /\ at < Len(str)
  /\ hash' = Plus(str[at + 1], Minus(ShiftLeft5(hash), hash))
  /\ at' = at + 1
  /\ UNCHANGED <<str, hue, notColor, pageVars, ageVars, uiVars, bulkVars>>

\* the loop is over: const hue = hash % 360, returned inside `hsl(...)`
getColorForString ==
  /\ hue = NoHue
  /\ at = Len(str)
  /\ hue' = <<Rem360(hash)>>
  /\ UNCHANGED <<str, hash, at, notColor, pageVars, ageVars, uiVars, bulkVars>>

(* ----------------------------- ClusterStore ---------------------------- *)
\* what list_contexts can answer as the kubeconfig changes
ContextLists == {<<>>, <<"c1">>, <<"c2">>, <<"c1", "c2">>}

\* what list_namespaces answers for a context, in the backend's order
NamespacesOf(ctx) == IF ctx = "c1" THEN <<"b", "a">> ELSE <<"a">>

Fallback == <<"default", "kube-system", "kube-public">>

\* the names in the order of Array.prototype.sort (by UTF-16 code units)
NameOrder == <<"a", "b", "default", "kube-public", "kube-system">>

Range(s) == {s[i] : i \in 1..Len(s)}

\* nss.sort(): the names of one cluster are pairwise distinct
RECURSIVE SortFrom(_, _)
SortFrom(nss, i) ==
  IF i > Len(NameOrder) THEN <<>>
  ELSE IF NameOrder[i] \in Range(nss) THEN <<NameOrder[i]>> \o SortFrom(nss, i + 1)
  ELSE SortFrom(nss, i + 1)

Sort(nss) == SortFrom(nss, 1)

NoStoreStep == [fetched |-> FALSE, fallback |-> FALSE, refreshed |-> FALSE]

\* fetchNamespaces up to its await, called with the value of this.active;
\* awaited tells whether a refresh waits for it
FetchNamespacesCall(act, awaited) ==
  IF act = "" THEN nsReqs' = nsReqs
  ELSE nsReqs' = Append(nsReqs, [ctx |-> act, awaited |-> awaited])

\* refresh() up to `await invoke('list_contexts')`
refresh ==
  /\ storeBudget > 0
  /\ storeBudget' = storeBudget - 1
  /\ storeLoading' = TRUE
  /\ listing' = listing + 1
  /\ storeLast' = NoStoreStep
  /\ UNCHANGED <<list, namespaces, nsReqs, nsFrom, active, activeNamespace>>
  /\ UNCHANGED <<pageRest, ageVars, notStore, uiVars, bulkVars>>

\* list_contexts resolves: the try block of refresh, up to the await of
\* fetchNamespaces, or through finally when the list is empty
ListContextsResolved(contexts) ==
  /\ listing > 0
  /\ listing' = listing - 1
  /\ IF Len(contexts) > 0 THEN
       /\ list' = contexts
       /\ active' = IF active = "" \/ active \notin Range(contexts) THEN contexts[1]
                    ELSE active
       /\ FetchNamespacesCall(active', TRUE)
       /\ storeLast' = NoStoreStep
       /\ UNCHANGED storeLoading
     ELSE
       /\ list' = <<>>
       /\ storeLoading' = FALSE
       /\ storeLast' = [NoStoreStep EXCEPT !.refreshed = TRUE]
       /\ UNCHANGED <<active, nsReqs>>
  /\ UNCHANGED <<namespaces, nsFrom, storeBudget, activeNamespace>>
  /\ UNCHANGED <<pageRest, ageVars, notStore, uiVars, bulkVars>>

\* list_contexts rejects: catch, finally
ListContextsRejected ==
  /\ listing > 0
  /\ listing' = listing - 1
  /\ storeLoading' = FALSE
  /\ storeLast' = [NoStoreStep EXCEPT !.refreshed = TRUE]
  /\ UNCHANGED <<list, namespaces, nsReqs, nsFrom, storeBudget, active, activeNamespace>>
  /\ UNCHANGED <<pageRest, ageVars, notStore, uiVars, bulkVars>>

\* setActive(cluster), from the cluster dropdown, whose options are the list
setActive(cluster) ==
  /\ storeBudget > 0
  /\ storeBudget' = storeBudget - 1
  /\ active' = cluster
  /\ FetchNamespacesCall(cluster, FALSE)
  /\ storeLast' = NoStoreStep
  /\ UNCHANGED <<list, namespaces, storeLoading, listing, nsFrom, activeNamespace>>
  /\ UNCHANGED <<pageRest, ageVars, notStore, uiVars, bulkVars>>

\* setNamespace(ns), from the namespace dropdown, whose options are "all"
\* and the namespaces
setNamespace(ns) ==
  /\ storeBudget > 0
  /\ storeBudget' = storeBudget - 1
  /\ activeNamespace' = ns
  /\ storeLast' = NoStoreStep
  /\ UNCHANGED <<list, namespaces, storeLoading, listing, nsReqs, nsFrom, active>>
  /\ UNCHANGED <<pageRest, ageVars, notStore, uiVars, bulkVars>>

\* list_namespaces resolves: the try block of fetchNamespaces
ListNamespacesResolved(i) ==
  LET req == nsReqs[i] IN
  /\ namespaces' = Sort(NamespacesOf(req.ctx))
  /\ activeNamespace' = IF activeNamespace \notin Range(namespaces') /\ activeNamespace # "all"
                         THEN "all" ELSE activeNamespace
  /\ nsFrom' = req.ctx
  /\ nsReqs' = RemoveAt(nsReqs, i)
  /\ storeLoading' = IF req.awaited THEN FALSE ELSE storeLoading
  /\ storeLast' = [fetched |-> TRUE, fallback |-> FALSE, refreshed |-> req.awaited]
  /\ UNCHANGED <<list, listing, storeBudget, active>>
  /\ UNCHANGED <<pageRest, ageVars, notStore, uiVars, bulkVars>>

\* list_namespaces rejects: the catch block of fetchNamespaces
ListNamespacesRejected(i) ==
  LET req == nsReqs[i] IN
  /\ namespaces' = Fallback
  /\ nsFrom' = req.ctx
  /\ nsReqs' = RemoveAt(nsReqs, i)
  /\ storeLoading' = IF req.awaited THEN FALSE ELSE storeLoading
  /\ storeLast' = [fetched |-> TRUE, fallback |-> TRUE, refreshed |-> req.awaited]
  /\ UNCHANGED <<list, listing, storeBudget, active, activeNamespace>>
  /\ UNCHANGED <<pageRest, ageVars, notStore, uiVars, bulkVars>>

(* ------------------------ Sidebar: debounced refresh ------------------- *)
\* setTimeout(..., 500)
Delay == 500

\* the clock moves in steps of half the delay
Quantum == Delay \div 2

NoTimer == <<>>

Pending(timer) == {d \in timers : timer = <<d>>}

\* onMount, up to `await listen("kubeconfig_update", ...)`
SidebarMount ==
  /\ sidebarPc = "start"
  /\ sidebarPc' = "listening"
  /\ debLast' = "mount"
  /\ UNCHANGED <<sidebarUnlisten, sidebarListener, refreshTimer, timers, clock,
                 lastNote, burstLen, callsSince, cleared, notes, advances>>
  /\ UNCHANGED <<storeVars, notDebounce, pageVars, ageVars, uiVars, bulkVars>>

\* listen resolves: the listener is registered and unlisten is assigned,
\* also when the component has been destroyed in the meantime
SidebarListenResolved ==
  /\ sidebarPc \in {"listening", "destroyed"}
  /\ ~sidebarUnlisten
  /\ sidebarPc' = IF sidebarPc = "listening" THEN "mounted" ELSE sidebarPc
  /\ sidebarUnlisten' = TRUE
  /\ sidebarListener' = TRUE
  /\ debLast' = "listen"
  /\ UNCHANGED <<refreshTimer, timers, clock, lastNote, burstLen, callsSince,
                 cleared, notes, advances>>
  /\ UNCHANGED <<storeVars, notDebounce, pageVars, ageVars, uiVars, bulkVars>>

\* mutant: the handler sets a new timer without clearing the previous one
KubeconfigUpdate_NoClear ==
  /\ sidebarListener
  /\ notes > 0
  /\ notes' = notes - 1
  /\ timers' = timers \cup {clock + Delay}
  /\ refreshTimer' = <<clock + Delay>>
  /\ lastNote' = <<clock>>
  /\ burstLen' = IF Pending(refreshTimer) # {} THEN burstLen + 1 ELSE 1
  /\ callsSince' = 0
  /\ cleared' = FALSE
  /\ debLast' = "note"
  /\ UNCHANGED <<sidebarPc, sidebarUnlisten, sidebarListener, clock, advances>>
  /\ UNCHANGED <<storeVars, notDebounce, pageVars, ageVars, uiVars, bulkVars>>

\* a kubeconfig_update notification reaches the listener:
\* if (refreshTimer) clearTimeout(refreshTimer); refreshTimer = setTimeout(...)
KubeconfigUpdate ==
  /\ sidebarListener
  /\ notes > 0
  /\ notes' = notes - 1
  /\ timers' = (timers \ Pending(refreshTimer)) \cup {clock + Delay}
  /\ refreshTimer' = <<clock + Delay>>
  /\ lastNote' = <<clock>>
  /\ burstLen' = IF Pending(refreshTimer) # {} THEN burstLen + 1 ELSE 1
  /\ callsSince' = 0
  /\ cleared' = FALSE
  /\ debLast' = "note"
  /\ UNCHANGED <<sidebarPc, sidebarUnlisten, sidebarListener, clock, advances>>
  /\ UNCHANGED <<storeVars, notDebounce, pageVars, ageVars, uiVars, bulkVars>>

\* a timer comes due: () => { clusterStore.refresh(); }, refresh running up
\* to its await
TimerFires(d) ==
  /\ d \in timers
  /\ d <= clock
  /\ timers' = timers \ {d}
  /\ callsSince' = callsSince + 1
  /\ debLast' = "refresh"
  /\ storeLoading' = TRUE
  /\ listing' = listing + 1
  /\ storeLast' = NoStoreStep
  /\ UNCHANGED <<list, namespaces, nsReqs, nsFrom, storeBudget>>
  /\ UNCHANGED <<sidebarPc, sidebarUnlisten, sidebarListener, refreshTimer, clock,
                 lastNote, burstLen, cleared, notes, advances>>
  /\ UNCHANGED <<notDebounce, pageVars, ageVars, uiVars, bulkVars>>

\* time passes; a timer that is due fires before the clock moves on
Advance ==
  /\ advances > 0
  /\ \A d \in timers : d > clock
  /\ advances' = advances - 1
  /\ clock' = clock + Quantum
  /\ debLast' = "advance"
  /\ UNCHANGED <<sidebarPc, sidebarUnlisten, sidebarListener, refreshTimer, timers,
                 lastNote, burstLen, callsSince, cleared, notes>>
  /\ UNCHANGED <<storeVars, notDebounce, pageVars, ageVars, uiVars, bulkVars>>

\* onDestroy: if (unlisten) unlisten(); if (refreshTimer) clearTimeout(refreshTimer)
SidebarDestroy ==
  /\ sidebarPc \in {"listening", "mounted"}
  /\ sidebarPc' = "destroyed"
  /\ sidebarListener' = IF sidebarUnlisten THEN FALSE ELSE sidebarListener
  /\ timers' = timers \ Pending(refreshTimer)
  /\ cleared' = (cleared \/ Pending(refreshTimer) # {})
  /\ debLast' = "destroy"
  /\ UNCHANGED <<sidebarUnlisten, refreshTimer, clock, lastNote, burstLen,
                 callsSince, notes, advances>>
  /\ UNCHANGED <<storeVars, notDebounce, pageVars, ageVars, uiVars, bulkVars>>

(* ------------------------ confirmed delete actions --------------------- *)
MaxConfirmOps == 1

ClusterIds == {<<"k1">>, <<"k2">>}

\* deployments as (name, namespace), in the order of cluster_list_deployments
DeploymentOrder == <<<<"d1", "a">>, <<"d2", "a">>>>

RECURSIVE Keep(_, _)
Keep(s, set) ==
  IF s = <<>> THEN <<>>
  ELSE IF Head(s) \in set THEN <<Head(s)>> \o Keep(Tail(s), set)
  ELSE Keep(Tail(s), set)

CommandOf(flow) ==
  IF flow = "cluster" THEN "remove_cluster"
  ELSE IF flow = "pod" THEN "delete_pod"
  ELSE "cluster_delete_deployment"

ConfirmStep == cbudget > 0 /\ cbudget' = cbudget - 1

\* a handler calls confirm(...) and waits for the answer
OpenConfirm(flow, items) ==
  /\ dialogs' = Append(dialogs, [flow |-> flow, items |-> items, pc |-> "confirm",
                                 answer |-> FALSE, successCount |-> 0])
  /\ clast' = [op |-> "open", invoked |-> invoked, shown |-> Displayed]
  /\ UNCHANGED <<shownClusters, deployments, remoteDeployments, loads, invoked>>
  /\ UNCHANGED <<pageVars, ageVars, notConfirm, uiVars, bulkVars>>

\* overview page, card menu: Delete
DeleteCluster(id) ==
  /\ ConfirmStep
  /\ id \in shownClusters
  /\ OpenConfirm("cluster", <<id>>)

\* pods page, row menu: Delete -> handleDelete(pod)
handleDelete(i) ==
  /\ ConfirmStep
  /\ i \in 1..Len(pods)
  /\ OpenConfirm("pod", <<KeyOf(pods[i])>>)

\* deployments page, row menu: Delete
DeleteDeployment(i) ==
  /\ ConfirmStep
  /\ i \in 1..Len(deployments)
  /\ OpenConfirm("deployment", <<deployments[i]>>)

\* deployments page, batch bar: handleBatchDelete(selectedIds);
\* itemsToDelete is computed before the confirmation
handleBatchDelete(ids) ==
  /\ ConfirmStep
  /\ ids # {}
  /\ OpenConfirm("deployments", Keep(deployments, ids))

\* the handler goes on after a command has returned, or starts its commands:
\* the batch loop invokes the next item, the other handlers have one item
Proceed(d, i, answer, rest, count) ==
  IF rest # <<>> THEN
    /\ dialogs' = [dialogs EXCEPT ![i] = [d EXCEPT !.pc = "deleting", !.answer = answer,
                                                   !.items = rest, !.successCount = count]]
    /\ invoked' = invoked \cup {Command(CommandOf(d.flow), Head(rest), answer)}
    /\ loads' = loads
  ELSE
    /\ dialogs' = RemoveAt(dialogs, i)
    /\ invoked' = invoked
    /\ loads' = IF d.flow = "deployments" /\ count > 0 THEN loads + 1 ELSE loads

\* mutant: the handler does not look at the answer
ConfirmAnswered_Unchecked(i, confirmed) ==
  LET d == dialogs[i] IN
  /\ d.pc = "confirm"
  /\ Proceed(d, i, confirmed, d.items, 0)
  /\ clast' = [op |-> IF confirmed THEN "confirmed" ELSE "declined",
               invoked |-> invoked, shown |-> Displayed]
  /\ UNCHANGED <<shownClusters, deployments, remoteDeployments, cbudget>>
  /\ UNCHANGED <<pageVars, ageVars, notConfirm, uiVars, bulkVars>>

\* confirm(...) returns: `if (!confirmed) return` / `if (confirmed) { ... }`
ConfirmAnswered(i, confirmed) ==
  LET d == dialogs[i] IN
  /\ d.pc = "confirm"
  /\ IF confirmed THEN Proceed(d, i, confirmed, d.items, 0)
     ELSE /\ dialogs' = RemoveAt(dialogs, i)
          /\ UNCHANGED <<invoked, loads>>
  /\ clast' = [op |-> IF confirmed THEN "confirmed" ELSE "declined",
               invoked |-> invoked, shown |-> Displayed]
  /\ UNCHANGED <<shownClusters, deployments, remoteDeployments, cbudget>>
  /\ UNCHANGED <<pageVars, ageVars, notConfirm, uiVars, bulkVars>>

\* clustersStore.remove(id), from the design: the cluster is deleted and the
\* list is refreshed
Remove(cs, id) == cs \ {id}

\* the awaited delete command returns, ok or rejected
CommandReturned(i, ok) ==
  LET d == dialogs[i]
      item == Head(d.items)
  IN
  /\ d.pc = "deleting"
  /\ shownClusters' = IF d.flow = "cluster" /\ ok THEN Remove(shownClusters, item)
                       ELSE shownClusters
  /\ remoteDeployments' = IF d.flow \in {"deployment", "deployments"} /\ ok
                           THEN remoteDeployments \ {item} ELSE remoteDeployments
  /\ IF d.flow = "deployments"
     THEN Proceed(d, i, d.answer, Tail(d.items), d.successCount + (IF ok THEN 1 ELSE 0))
     ELSE /\ dialogs' = RemoveAt(dialogs, i)
          /\ invoked' = invoked
          /\ loads' = IF d.flow = "deployment" /\ ok THEN loads + 1 ELSE loads
  /\ clast' = [op |-> "returned", invoked |-> invoked, shown |-> Displayed]
  /\ UNCHANGED <<deployments, cbudget>>
  /\ UNCHANGED <<pageVars, ageVars, notConfirm, uiVars, bulkVars>>

\* loadData: cluster_list_deployments resolves
LoadDataResolved ==
  /\ loads > 0
  /\ loads' = loads - 1
  /\ deployments' = Keep(DeploymentOrder, remoteDeployments)
  /\ clast' = [op |-> "loaded", invoked |-> invoked, shown |-> Displayed]
  /\ UNCHANGED <<shownClusters, remoteDeployments, dialogs, invoked, cbudget>>
  /\ UNCHANGED <<pageVars, ageVars, notConfirm, uiVars, bulkVars>>

(* ----------------------- deployment detail drawer ---------------------- *)
MaxDrawerOps == 4

NoDeployment == <<"", "">>

NoDetails == <<>>

DrawerStep == drawerBudget > 0 /\ drawerBudget' = drawerBudget - 1

\* loadDeploymentDetails up to `await Promise.all([...])`: the four commands
\* are invoked with the name and namespace of that moment
loadDeploymentDetails(sel) ==
  /\ drawerLoading' = TRUE
  /\ detailLoads' = Append(detailLoads, sel)

\* the $effect of the drawer, run after open, deploymentName or namespace
\* has changed
DrawerEffect(open, sel) ==
  IF (open # showDrawer \/ sel # selectedDeployment)
     /\ open /\ sel[1] # "" /\ sel[2] # ""
  THEN loadDeploymentDetails(sel)
  ELSE UNCHANGED <<drawerLoading, detailLoads>>

\* a row of the deployments table is clicked (or View Details is chosen)
handleRowClick(i) ==
  /\ DrawerStep
  /\ i \in 1..Len(deployments)
  /\ selectedDeployment' = deployments[i]
  /\ showDrawer' = TRUE
  /\ DrawerEffect(TRUE, deployments[i])
  /\ UNCHANGED <<details, drawerPods, replicaSets, events>>
  /\ UNCHANGED <<pageVars, ageVars, notDrawer, uiVars, bulkVars>>

\* the drawer is closed: bind:open
CloseDrawer ==
  /\ DrawerStep
  /\ showDrawer
  /\ showDrawer' = FALSE
  /\ DrawerEffect(FALSE, selectedDeployment)
  /\ UNCHANGED <<selectedDeployment, details, drawerPods, replicaSets, events>>
  /\ UNCHANGED <<pageVars, ageVars, notDrawer, uiVars, bulkVars>>

\* the refresh button of the drawer
handleRefresh ==
  /\ DrawerStep
  /\ showDrawer
  /\ loadDeploymentDetails(selectedDeployment)
  /\ UNCHANGED <<showDrawer, selectedDeployment, details, drawerPods, replicaSets, events>>
  /\ UNCHANGED <<pageVars, ageVars, notDrawer, uiVars, bulkVars>>

\* Promise.all resolves: the four results are assigned; finally
DetailsResolved(i) ==
  /\ details' = detailLoads[i]
  /\ drawerPods' = detailLoads[i]
  /\ replicaSets' = detailLoads[i]
  /\ events' = detailLoads[i]
  /\ drawerLoading' = FALSE
  /\ detailLoads' = RemoveAt(detailLoads, i)
  /\ UNCHANGED <<showDrawer, selectedDeployment, drawerBudget>>
  /\ UNCHANGED <<pageVars, ageVars, notDrawer, uiVars, bulkVars>>

\* Promise.all rejects: catch, finally
DetailsRejected(i) ==
  /\ drawerLoading' = FALSE
  /\ detailLoads' = RemoveAt(detailLoads, i)
  /\ UNCHANGED <<showDrawer, selectedDeployment, details, drawerPods, replicaSets,
                 events, drawerBudget>>
  /\ UNCHANGED <<pageVars, ageVars, notDrawer, uiVars, bulkVars>>

(* --------------------------- specifications ---------------------------- *)
\* the pods page before it is mounted
PageRestInit ==
  /\ pods = <<>>
  /\ loading = FALSE
  /\ error = ""
  /\ unlisten = FALSE
  /\ listenerOn = FALSE
  /\ mountPc = "start"
  /\ destroyed = FALSE
  /\ listCalls = <<>>
  /\ startReqs = <<>>
  /\ subs = <<>>
  /\ remote = [c \in Contexts |-> [k \in Keys |-> IF c = "c1" /\ k \in Present THEN 1 ELSE 0]]
  /\ budget = MaxEvents
  /\ calls = 0
  /\ last = NoLast
  /\ expect = [k \in Keys |-> Unknown]
  /\ amd = NoAmd

\* the page with the cluster c1 chosen in the store
PageInit ==
  /\ PageRestInit
  /\ active = "c1"
  /\ activeNamespace = "all"

AgeIdle ==
  /\ created = Undefined
  /\ now = 0
  /\ ageOut = NoAge

\* the import modal as constructed: closed, on the File tab, nothing pending
ModalIdle ==
  /\ importModalOpen = FALSE
  /\ activeTab = "file"
  /\ modalLoading = FALSE
  /\ modalError = "none"
  /\ discoveredContexts = <<>>
  /\ selectedContexts = {}
  /\ disc = Idle
  /\ imp = Idle
  /\ registry = <<>>
  /\ clusters = <<>>
  /\ attempts = <<>>
  /\ entered = NotEntered
  /\ mlast = NoStep
  /\ sinceSwitch = FALSE
  /\ steps = MaxGestures

\* the settings store constructed over an empty localStorage
SettingsIdle ==
  /\ settingsItem = NoItem
  /\ settingsValue = DefaultSettings
  /\ rootClasses = {}
  /\ effectRan = FALSE
  /\ wantTheme = "none"
  /\ wantInterval = <<>>
  /\ slast = NoStep
  /\ sbudget = MaxSettingsSteps

\* a table mounted with the declared columns over an empty localStorage,
\* without rows
TableIdle ==
  /\ data = <<>>
  /\ columns = Declared
  /\ tableItem = StringifyColumns(Declared)
  /\ sortCol = "null"
  /\ sortDir = "asc"
  /\ selectedIds = {}
  /\ afterToggle = <<>>
  /\ tlast = NoStep
  /\ tbudget = MaxTableSteps

\* nothing selected in the pods table, no bulk delete pending
BulkIdle ==
  /\ podSelection = {}
  /\ bulk = Idle
  /\ blast = NoStep
  /\ bbudget = MaxBulkSteps

ColorIdle ==
  /\ str = <<>>
  /\ hash = Num(0, 0)
  /\ at = 0
  /\ hue = NoHue

StoreIdle ==
  /\ list = <<>>
  /\ namespaces = <<>>
  /\ storeLoading = FALSE
  /\ listing = 0
  /\ nsReqs = <<>>
  /\ nsFrom = ""
  /\ storeLast = NoStoreStep
  /\ storeBudget = 0

DebounceIdle ==
  /\ sidebarPc = "start"
  /\ sidebarUnlisten = FALSE
  /\ sidebarListener = FALSE
  /\ refreshTimer = NoTimer
  /\ timers = {}
  /\ clock = 0
  /\ lastNote = <<>>
  /\ burstLen = 0
  /\ callsSince = 0
  /\ cleared = FALSE
  /\ debLast = "none"
  /\ notes = 0
  /\ advances = 0

ConfirmIdle ==
  /\ shownClusters = {}
  /\ deployments = <<>>
  /\ remoteDeployments = {}
  /\ dialogs = <<>>
  /\ loads = 0
  /\ invoked = {}
  /\ clast = [op |-> "none", invoked |-> {}, shown |-> Displayed]
  /\ cbudget = 0

DrawerIdle ==
  /\ showDrawer = FALSE
  /\ selectedDeployment = NoDeployment
  /\ details = NoDetails
  /\ drawerPods = NoDetails
  /\ replicaSets = NoDetails
  /\ events = NoDetails
  /\ drawerLoading = FALSE
  /\ detailLoads = <<>>
  /\ drawerBudget = 0

MoreIdle == ColorIdle /\ StoreIdle /\ DebounceIdle /\ ConfirmIdle /\ DrawerIdle

UiIdle == ModalIdle /\ SettingsIdle /\ TableIdle /\ BulkIdle

Init == PageInit /\ AgeIdle /\ MoreIdle /\ UiIdle

Next ==
  \/ Mount
  \/ ListenResolved
  \/ Destroy
  \/ Refresh
  \/ \E c \in Contexts : SetActive(c)
  \/ \E ns \in Scopes : SetNamespace(ns)
  \/ \E i \in 1..Len(listCalls) : BackendListPods(i)
  \/ \E i \in 1..Len(listCalls) : BackendListPodsFail(i)
  \/ \E i \in 1..Len(listCalls) : ListReply(i)
  \/ \E i \in {1} \cap DOMAIN startReqs : BackendStartWatch(i)
  \/ \E i \in {1} \cap DOMAIN startReqs : BackendStartFail(i)
  \/ \E j \in 1..Len(subs) : WatchFail(j)
  \/ \E j \in 1..Len(subs) : Resync(j)
  \/ \E c \in Changing, k \in Keys : RemoteAdd(c, k)
  \/ \E c \in Changing, k \in Keys : RemoteModify(c, k)
  \/ \E c \in Changing, k \in Keys : RemoteDelete(c, k)
  \/ \E j \in 1..Len(subs) : Deliver(j)

Spec == Init /\ [][Next]_vars

\* the page after mount, once both startWatch calls of the mount have
\* completed and the first Restarted has been applied: one subscription,
\* Watching the tuple (c1, all)
StreamState ==
  /\ pods = <<Pod(X, 1), Pod(<<"y", "b">>, 1)>>
  /\ loading = FALSE
  /\ error = ""
  /\ unlisten = TRUE
  /\ listenerOn = TRUE
  /\ mountPc = "done"
  /\ destroyed = FALSE
  /\ active = "c1"
  /\ activeNamespace = "all"
  /\ listCalls = <<>>
  /\ startReqs = <<>>
  /\ subs = <<[ctx |-> "c1", ns |-> "all", state |-> "Watching", chan |-> <<>>]>>
  /\ remote = [c \in Contexts |-> [k \in Keys |-> IF c = "c1" /\ k \in Present THEN 1 ELSE 0]]
  /\ calls = 2
  /\ last = [op |-> "event", type |-> "Restarted", payload |-> pods,
             src |-> <<"c1", "all">>, before |-> pods]
  /\ expect = [k \in Keys |-> <<IF k \in Present THEN 1 ELSE 0>>]
  /\ amd = NoAmd

StreamInit ==
  /\ StreamState
  /\ budget = MaxStreamEvents
  /\ AgeIdle
  /\ MoreIdle
  /\ UiIdle

StreamNext ==
  \/ \E j \in 1..Len(subs) : Resync(j)
  \/ \E c \in Changing, k \in Keys : RemoteAdd(c, k)
  \/ \E c \in Changing, k \in Keys : RemoteModify(c, k)
  \/ \E c \in Changing, k \in Keys : RemoteDelete(c, k)
  \/ \E j \in 1..Len(subs) : Deliver(j)

SpecStream == StreamInit /\ [][StreamNext]_vars

AgeInit ==
  /\ PageInit
  /\ created \in Creations
  /\ now \in Instants
  /\ ageOut = NoAge
  /\ MoreIdle
  /\ UiIdle

AgeNext == Tick \/ RenderAge

SpecAge == AgeInit /\ [][AgeNext]_vars

ImportInit == PageInit /\ AgeIdle /\ MoreIdle /\ UiIdle

ImportNext ==
  \/ openImportModal
  \/ handleImportFile
  \/ handleImportFolder
  \/ DialogCancelled
  \/ DialogPicked
  \/ DiscoveryResolved
  \/ DiscoveryRejected
  \/ \E tab \in {"file", "folder"} : SwitchTab(tab)
  \/ \E i \in 1..MaxRows : toggleContext(i)
  \/ \E i \in 1..MaxRows, value \in DisplayNames : updateDisplayName(i, value)
  \/ \E i \in 1..MaxRows, icon \in Icons : updateIcon(i, icon)
  \/ handleImportSelected
  \/ AddClusterResolved
  \/ AddClusterRejected
  \/ ImportDone
  \/ handleClose

SpecImport == ImportInit /\ [][ImportNext]_vars

SettingsInit ==
  /\ PageInit /\ AgeIdle /\ MoreIdle /\ ModalIdle /\ TableIdle /\ BulkIdle
  /\ settingsItem \in StoredTexts
  /\ settingsValue = SettingsStoreNew(settingsItem).value
  /\ rootClasses = {}
  /\ effectRan = FALSE
  /\ wantTheme = "none"
  /\ wantInterval = <<>>
  /\ slast = [op |-> "construct", ok |-> SettingsStoreNew(settingsItem).ok,
              item |-> settingsItem]
  /\ sbudget = MaxSettingsSteps

SettingsNext ==
  \/ LayoutEffect
  \/ \E theme \in Themes : setTheme(theme)
  \/ \E ms \in Intervals : setRefreshInterval(ms)
  \/ Restart

SpecSettings == SettingsInit /\ [][SettingsNext]_vars

\* a table just mounted over what localStorage held, with rows
TableInit ==
  /\ PageInit /\ AgeIdle /\ MoreIdle /\ ModalIdle /\ SettingsIdle /\ BulkIdle
  /\ data \in DataSets
  /\ \E text \in TableTexts :
       /\ columns = InitColumns(Declared, text)
       /\ tlast = [op |-> "mount", item |-> text]
  /\ tableItem = StringifyColumns(columns)
  /\ sortCol = "null"
  /\ sortDir = "asc"
  /\ selectedIds = {}
  /\ afterToggle = <<>>
  /\ tbudget = MaxTableSteps

TableNext ==
  \/ MountTable
  \/ \E colId \in ColumnIds : toggleColumn(colId)
  \/ \E colId \in ColumnIds : handleSort(colId)
  \/ \E id \in {"p1", "p2", "p3"}, checked \in BOOLEAN : toggleRow(id, checked)
  \/ \E checked \in BOOLEAN : toggleSelectAll(checked)
  \/ \E rows \in DataSets : DataChanged(rows)
  \/ BatchAction

SpecTable == TableInit /\ [][TableNext]_vars

\* the pods page showing all namespaces of c1, its watch running
BulkInit ==
  /\ StreamState
  /\ budget = MaxBulkEvents
  /\ AgeIdle
  /\ MoreIdle
  /\ UiIdle

BulkNext ==
  \/ \E c \in Changing, k \in Keys : RemoteAdd(c, k)
  \/ \E c \in Changing, k \in Keys : RemoteModify(c, k)
  \/ \E c \in Changing, k \in Keys : RemoteDelete(c, k)
  \/ \E j \in 1..Len(subs) : Deliver(j)
  \/ \E i \in 1..Len(pods) : togglePod(i)
  \/ DeleteSelected
  \/ ConfirmDeclined
  \/ ConfirmGiven

SpecBulk == BulkInit /\ [][BulkNext]_vars

\* cluster names: char codes of '-', 'a' and 'z'
MaxNameLen == 6

CharCodes == {45, 97, 122}

RECURSIVE NamesOfLen(_)
NamesOfLen(n) ==
  IF n = 0 THEN {<<>>}
  ELSE {Append(s, c) : s \in NamesOfLen(n - 1), c \in CharCodes}

ClusterNames == UNION {NamesOfLen(n) : n \in 0..MaxNameLen}

ColorInit ==
  /\ PageInit /\ AgeIdle /\ UiIdle /\ StoreIdle /\ DebounceIdle /\ ConfirmIdle /\ DrawerIdle
  /\ str \in ClusterNames
  /\ hash = Num(0, 0)
  /\ at = 0
  /\ hue = NoHue

ColorNext == HashStep \/ getColorForString

SpecColor == ColorInit /\ [][ColorNext]_vars

MaxStoreOps == 3

\* the store as constructed: nothing active, nothing listed
StoreInit ==
  /\ PageRestInit /\ AgeIdle /\ UiIdle /\ ColorIdle /\ DebounceIdle /\ ConfirmIdle /\ DrawerIdle
  /\ active = ""
  /\ activeNamespace = "all"
  /\ list = <<>>
  /\ namespaces = <<>>
  /\ storeLoading = FALSE
  /\ listing = 0
  /\ nsReqs = <<>>
  /\ nsFrom = ""
  /\ storeLast = NoStoreStep
  /\ storeBudget = MaxStoreOps

StoreNext ==
  \/ refresh
  \/ \E contexts \in ContextLists : ListContextsResolved(contexts)
  \/ ListContextsRejected
  \/ \E cluster \in Range(list) : setActive(cluster)
  \/ \E ns \in {"all"} \cup Range(namespaces) : setNamespace(ns)
  \/ \E i \in 1..Len(nsReqs) : ListNamespacesResolved(i)
  \/ \E i \in 1..Len(nsReqs) : ListNamespacesRejected(i)

SpecStore == StoreInit /\ [][StoreNext]_vars

MaxNotes == 3
MaxAdvances == 5

DebounceInit ==
  /\ PageInit /\ AgeIdle /\ UiIdle /\ ColorIdle /\ StoreIdle /\ ConfirmIdle /\ DrawerIdle
  /\ sidebarPc = "start"
  /\ sidebarUnlisten = FALSE
  /\ sidebarListener = FALSE
  /\ refreshTimer = NoTimer
  /\ timers = {}
  /\ clock = 0
  /\ lastNote = <<>>
  /\ burstLen = 0
  /\ callsSince = 0
  /\ cleared = FALSE
  /\ debLast = "none"
  /\ notes = MaxNotes
  /\ advances = MaxAdvances

DebounceNext ==
  \/ SidebarMount
  \/ SidebarListenResolved
  \/ KubeconfigUpdate
  \/ \E d \in timers : TimerFires(d)
  \/ Advance
  \/ SidebarDestroy

SpecDebounce == DebounceInit /\ [][DebounceNext]_vars

\* the three pages with their rows loaded, the watch of the pods page running
ConfirmInit ==
  /\ StreamState
  /\ budget = 0
  /\ AgeIdle /\ UiIdle /\ ColorIdle /\ StoreIdle /\ DebounceIdle /\ DrawerIdle
  /\ shownClusters = ClusterIds
  /\ deployments = DeploymentOrder
  /\ remoteDeployments = Range(DeploymentOrder)
  /\ dialogs = <<>>
  /\ loads = 0
  /\ invoked = {}
  /\ clast = [op |-> "none", invoked |-> {}, shown |-> Displayed]
  /\ cbudget = MaxConfirmOps

ConfirmNext ==
  \/ \E id \in ClusterIds : DeleteCluster(id)
  \/ \E i \in 1..Len(pods) : handleDelete(i)
  \/ \E i \in 1..Len(deployments) : DeleteDeployment(i)
  \/ \E ids \in SUBSET Range(deployments) : handleBatchDelete(ids)
  \/ \E i \in 1..Len(dialogs), confirmed \in BOOLEAN : ConfirmAnswered(i, confirmed)
  \/ \E i \in 1..Len(dialogs), ok \in BOOLEAN : CommandReturned(i, ok)
  \/ LoadDataResolved
  \/ \E i \in 1..Len(pods) : togglePod(i)
  \/ DeleteSelected
  \/ ConfirmDeclined
  \/ ConfirmGiven

SpecConfirm == ConfirmInit /\ [][ConfirmNext]_vars

\* the deployments page with its rows loaded, the drawer closed
DrawerInit ==
  /\ PageInit /\ AgeIdle /\ UiIdle /\ ColorIdle /\ StoreIdle /\ DebounceIdle
  /\ shownClusters = {}
  /\ deployments = DeploymentOrder
  /\ remoteDeployments = Range(DeploymentOrder)
  /\ dialogs = <<>>
  /\ loads = 0
  /\ invoked = {}
  /\ clast = [op |-> "none", invoked |-> {}, shown |-> Displayed]
  /\ cbudget = 0
  /\ showDrawer = FALSE
  /\ selectedDeployment = NoDeployment
  /\ details = NoDetails
  /\ drawerPods = NoDetails
  /\ replicaSets = NoDetails
  /\ events = NoDetails
  /\ drawerLoading = FALSE
  /\ detailLoads = <<>>
  /\ drawerBudget = MaxDrawerOps

DrawerNext ==
  \/ \E i \in 1..Len(deployments) : handleRowClick(i)
  \/ CloseDrawer
  \/ handleRefresh
  \/ \E i \in 1..Len(detailLoads) : DetailsResolved(i)
  \/ \E i \in 1..Len(detailLoads) : DetailsRejected(i)

SpecDrawer == DrawerInit /\ [][DrawerNext]_vars

(* ------------------------------- claims -------------------------------- *)
Seen(ps) == {ps[i] : i \in 1..Len(ps)}

Others(ps, k) == SelectSeq(ps, LAMBDA p : KeyOf(p) # k)

Count(ps, k) == Cardinality({i \in 1..Len(ps) : KeyOf(ps[i]) = k})

Applied(t) == last.op = "event" /\ last.type = t

\* C1: after the listener has applied a Restarted event, the pod list is
\* exactly the snapshot carried by the event, whatever the list held before
C1_RestartedReplaces ==
  Applied("Restarted") => pods = last.payload

\* a Restarted was applied to a list holding a pod that the snapshot lacks
C1_Witness ==
  /\ Applied("Restarted")
  /\ \E p \in Seen(last.before) : FindIndex(last.payload, p) = 0
  /\ Len(last.payload) > 0

\* C2: after Added or Modified for a pod, exactly one entry has the pod's
\* (name, namespace) key and it is the event's summary, replaced in place when
\* the key was present and appended otherwise; after Deleted no entry has the
\* key; the entries with any other key are as they were
C2_UpsertDelete ==
  /\ (Applied("Added") \/ Applied("Modified")) =>
       LET k == KeyOf(last.payload)
           idx == FindIndex(last.before, last.payload)
       IN /\ Count(pods, k) = 1
          /\ last.payload \in Seen(pods)
          /\ IF idx >= 1 THEN Len(pods) = Len(last.before) /\ pods[idx] = last.payload
             ELSE pods = Append(last.before, last.payload)
          /\ Others(pods, k) = Others(last.before, k)
  /\ Applied("Deleted") =>
       LET k == KeyOf(last.payload)
       IN /\ Count(pods, k) = 0
          /\ Others(pods, k) = Others(last.before, k)

\* an Added for a key the list already held replaced that entry in place,
\* next to an entry of the same name in another namespace
C2_Witness ==
  /\ Applied("Added")
  /\ FindIndex(last.before, last.payload) >= 1
  /\ \E i \in 1..Len(pods) : pods[i].name = last.payload.name /\ pods[i] # last.payload

\* C3: events are applied in the order the channel delivered them: every
\* object of the view reflects the latest event applied for it (absent after
\* Deleted, the event's summary after Added or Modified, the snapshot after
\* Restarted), and after Added(X), Modified(X), Deleted(X) in that order,
\* interleaved with events for other objects, the view does not contain X
C3_OrderedApplication ==
  /\ \A k \in Keys : expect[k] # Unknown =>
       /\ RevIn(pods, k) = expect[k][1]
       /\ Count(pods, k) <= 1
  /\ amd.stage = 3 => Count(pods, X) = 0

\* Added(X), Modified(X), Deleted(X) were applied in that order with an event
\* for another object in between, and that object is in the view
C3_Witness ==
  /\ Applied("Deleted")
  /\ KeyOf(last.payload) = X
  /\ amd.stage = 3
  /\ amd.mixed
  /\ \E k \in Keys \ {X} : expect[k] # Unknown /\ expect[k][1] > 0

\* the page is mounted and alive and nothing is pending: no list_pods reply,
\* no start_pod_watch request, no undelivered event
Quiescent ==
  /\ mountPc = "done"
  /\ ~destroyed
  /\ listCalls = <<>>
  /\ startReqs = <<>>
  /\ \A j \in 1..Len(subs) : subs[j].chan = <<>>

NoFault == \A j \in 1..Len(subs) : subs[j].state # "Stopped"

\* C4: once nothing is pending, and no watch has failed, the pod list equals
\* the remote set of pods of the selected (cluster, namespace)
C4_EventuallyConsistent ==
  (Quiescent /\ NoFault /\ Live(active, activeNamespace)) =>
    /\ Seen(pods) = Seen(Snapshot(active, activeNamespace))
    /\ Len(pods) = Len(Snapshot(active, activeNamespace))

\* C5: after the component's teardown has run, no event is applied by the
\* listener
C5_NoEventAfterStop ==
  destroyed => last.op # "event"

LiveAt(j) == subs[j].state # "Stopped"

\* C6: once the watch of the selected tuple is alive, no watch of another
\* (previously selected) tuple is alive
C6_OnlyCurrentWatchAlive ==
  Live(active, activeNamespace) =>
    \A j \in 1..Len(subs) : LiveAt(j) => subs[j].ctx = active /\ subs[j].ns = activeNamespace

C8_EventsKeyedByTuple ==
  last.op = "event" => last.src = <<active, activeNamespace>>

\* C9: when the page has received a terminal watch failure (the start
\* request was rejected, or the final error-bearing event was delivered to the
\* listener), its error indicator is set
C9_FailureVisible ==
  (last.op = "startFailed" \/ Applied("Error")) => error # ""

(* ------------------------------ formatAge ------------------------------ *)
\* the age bucket of the design: seconds while < 60, minutes while < 3600,
\* hours while < 86400, else days
Bucket(e) ==
  IF e < 60 THEN Age(e, "s")
  ELSE IF e < 3600 THEN Age(e \div 60, "m")
  ELSE IF e < 86400 THEN Age(e \div 3600, "h")
  ELSE Age(e \div 86400, "d")

\* C10: for every creation instant and evaluation instant, formatAge returns
\* the bucket of e = max(0, floor(elapsed seconds))
C10_AgeBuckets ==
  ageOut.created # Undefined =>
    ageOut.out = Bucket(Max0((ageOut.now - ageOut.created[1]) \div 1000))

\* 86399.999 s elapsed were rendered as 23h
C10_Witness ==
  /\ ageOut.created = <<0>>
  /\ ageOut.now = Instant(0, 23, 59, 59, 999)
  /\ ageOut.out = Age(23, "h")

(* ---------------------------- import modal ----------------------------- *)
\* C11: discovered contexts are identified by (context name, source path):
\* toggling the checkbox of one row leaves the checkbox of every other row
\* as it was, and editing the name or icon of one row leaves every other row
\* as it was
C11_IdentifiedByNameAndPath ==
  /\ mlast.op = "toggle" =>
       \A j \in 1..Len(discoveredContexts) :
          j # mlast.row => ((j \in CheckedRows) <=> (j \in mlast.checked))
  /\ mlast.op = "edit" =>
       \A j \in 1..Len(discoveredContexts) :
          j # mlast.row => discoveredContexts[j] = mlast.rows[j]

\* C12: when Import Selected succeeds, add_cluster was invoked exactly once
\* for every checked row and for no other, each with the row's own context
\* name and source file and the display name the user entered in that row;
\* the cluster list is reloaded and the modal is closed
C12_ImportsChosenSubset ==
  mlast.op = "imported" =>
    /\ Len(attempts) = Cardinality(mlast.checked)
    /\ {attempts[k].row : k \in 1..Len(attempts)} = mlast.checked
    /\ \A k \in 1..Len(attempts) :
         /\ attempts[k].args.context_name = mlast.rows[attempts[k].row].context_name
         /\ attempts[k].args.source_file = mlast.rows[attempts[k].row].source_file
         /\ attempts[k].args.name = attempts[k].want
    /\ clusters = registry
    /\ ~importModalOpen

C14_TabSwitchClears ==
  sinceSwitch =>
    /\ discoveredContexts = <<>>
    /\ selectedContexts = {}
    /\ modalError = "none"

(* -------------------------- settings and theme ------------------------- *)
\* C15: once the theme effect of the layout has run, the root element carries
\* exactly one of the six theme classes, the theme the settings store holds
C15_OneThemeClass ==
  effectRan => (rootClasses \cap Themes) = {settingsValue.theme}

Unsaved(text, id) ==
  \/ "absent" \in DOMAIN text
  \/ ~text.closed
  \/ FindSaved(text, id) = 0

\* C17: a table mounted with the same storageKey and the same declared
\* columns shows each column as it was after the last toggleColumn, and a
\* column without a saved entry keeps its declared visibility
C17_ColumnVisibilityPersists ==
  tlast.op = "mount" =>
    /\ Len(columns) = Len(Declared)
    /\ afterToggle # <<>> =>
         \A i \in 1..Len(columns) :
            Shown(columns[i]) = afterToggle[columns[i].id]
    /\ \A i \in 1..Len(columns) :
         Unsaved(tlast.item, Declared[i].id) =>
           columns[i].visible = Declared[i].visible

\* a remount after toggles that left a column other than declared
C17_Witness ==
  /\ tlast.op = "mount"
  /\ afterToggle # <<>>
  /\ \E i \in 1..Len(columns) : Shown(columns[i]) # Shown(Declared[i])

Occurrences(rows, r) == Cardinality({i \in 1..Len(rows) : rows[i] = r})

Missing(row, key) == Cell(row, key) = <<>>

\* rows are in the order of `key`: missing cells last when ascending, first
\* when descending
OrderedBy(rows, key, dir) ==
  \A i, j \in 1..Len(rows) :
    i < j =>
      LET a == IF dir = "asc" THEN rows[i] ELSE rows[j]
          b == IF dir = "asc" THEN rows[j] ELSE rows[i]
      IN /\ Missing(a, key) => Missing(b, key)
         /\ (~Missing(a, key) /\ ~Missing(b, key)) =>
              Cell(a, key)[1] <= Cell(b, key)[1]

\* C18: a click on a sortable header other than the sort column sorts by it
\* ascending, a click on the sort column flips the direction, a click on a
\* header that is not sortable changes nothing; the displayed rows are a
\* permutation of the input rows, in the order of the sort column's key in
\* the current direction, and in the input order when there is no sort column
C18_Sorting ==
  /\ Len(sortedData) = Len(data)
  /\ \A i \in 1..Len(data) :
       Occurrences(sortedData, data[i]) = Occurrences(data, data[i])
  /\ sortCol = "null" => sortedData = data
  /\ sortCol # "null" =>
       OrderedBy(sortedData, SortKeyOf(columns, sortCol), sortDir)
  /\ tlast.op = "sort" =>
       LET c == columns[FindColumn(columns, tlast.col)]
       IN IF ~c.sortable
          THEN sortCol = tlast.sortCol /\ sortDir = tlast.sortDir
          ELSE IF tlast.sortCol = tlast.col
               THEN sortCol = tlast.col /\ sortDir # tlast.sortDir
               ELSE sortCol = tlast.col /\ sortDir = "asc"

\* three rows sorted descending by a key that one of them lacks
C18_Witness ==
  /\ tlast.op = "sort"
  /\ sortCol = "age" /\ sortDir = "desc"
  /\ Len(data) = 3
  /\ \E i \in 1..Len(data) : Missing(data[i], "created")
  /\ sortedData # data

\* C19: the selection holds keys of rows of the table only; a batch action is
\* invoked with the selected keys, all of them keys of rows in the table, and
\* the selection is empty afterwards
C19_BatchActionOnSelection ==
  /\ selectedIds \subseteq RowKeys(data)
  /\ tlast.op = "batch" =>
       /\ tlast.ids # {}
       /\ tlast.ids \subseteq RowKeys(data)
       /\ selectedIds = {}

\* a batch action on rows p1 and p3 of a table that p2 has left
C19_Witness ==
  /\ tlast.op = "batch"
  /\ tlast.ids = {"p1", "p3"}
  /\ RowKeys(data) = {"p1", "p3"}

(* ------------------------ pods page: bulk delete ----------------------- *)
\* C20: after the confirmation, delete_pod has been invoked once for every
\* selected row that is still listed, with the row's own namespace and name,
\* and for no other pod
C20_BulkDeleteExactlySelected ==
  blast.op = "deleted" =>
    \A k \in Keys :
      blast.calls[k] = IF k \in blast.rows /\ k \in blast.present THEN 1 ELSE 0

(* ------------------------ import modal, when closed -------------------- *)
\* C24: whenever the import modal is closed, nothing is discovered, nothing
\* is selected and no error is held
C24_ClosedModalIsEmpty ==
  ~importModalOpen =>
    /\ discoveredContexts = <<>>
    /\ selectedContexts = {}
    /\ modalError = "none"

(* ------------------------- DataTable: select all ----------------------- *)
SelectedRows == {i \in 1..Len(data) : data[i].id \in selectedIds}

\* C29: allSelected is true exactly when the table is non-empty and every row
\* is selected; indeterminate is true exactly when some but not all rows are
\* selected
C29_SelectAllFlags ==
  /\ allSelected <=> (Len(data) > 0 /\ SelectedRows = 1..Len(data))
  /\ isIndeterminate <=> (SelectedRows # {} /\ SelectedRows # 1..Len(data))


\* C23: the pod_event listener is registered before any start_pod_watch
\* request is issued, so no event of a started watch is emitted while no
\* listener exists: a pending start request, a subscription, or an event
\* that found no listener, each imply that `await listen(...)` has resolved
C23_ListenerBeforeStart ==
  (Len(startReqs) > 0 \/ Len(subs) > 0 \/ last.op = "lost") => unlisten

(* ------------------------------ cluster colour ------------------------- *)
\* C30: for every cluster name the computed hue is an integer in 0..359
C30_HueInRange ==
  hue # NoHue => hue[1] \in 0..359

(* --------------------------------- store ------------------------------- *)
\* C22: after a fetchNamespaces call has completed, by success or by the
\* fallback, the active namespace is "all" or one of the store's namespaces
C22_NamespaceValid ==
  storeLast.fetched =>
    (activeNamespace = "all" \/ activeNamespace \in Range(namespaces))

\* C25: after a refresh has completed, the active cluster is empty or in the
\* list, and loading is false
C25_ActiveListed ==
  storeLast.refreshed =>
    /\ active = "" \/ active \in Range(list)
    /\ ~storeLoading

\* C26: once no list_namespaces request and no refresh is outstanding, the
\* namespaces are those written for the active cluster
C26_NamespacesOfActive ==
  (nsReqs = <<>> /\ listing = 0 /\ nsFrom # "") => nsFrom = active

C27_DeleteOnlyConfirmed ==
  /\ \A c \in invoked : c.answer
  /\ clast.op = "declined" => (invoked = clast.invoked /\ Displayed = clast.shown)

\* a confirmation was declined after commands of a confirmed delete had been
\* invoked
C27_Witness ==
  /\ clast.op = "declined"
  /\ invoked # {}

(* ------------------------ deployment detail drawer --------------------- *)
\* C28: once every load has completed, what the open drawer holds (details,
\* pods, replica sets, events) is all of the deployment selected now
C28_DrawerShowsSelected ==
  (detailLoads = <<>> /\ showDrawer /\ details # NoDetails) =>
    /\ details = selectedDeployment
    /\ drawerPods = selectedDeployment
    /\ replicaSets = selectedDeployment
    /\ events = selectedDeployment

====
